---- MODULE Spec2Model ----
(***************************************************************************)
(* Page-range parsing and PDF splitting of the PDF converter:              *)
(* PdfService._parseRanges, PdfService.splitPdf / _splitWithPDFLib and     *)
(* their caller App.splitPdf.  Strings are sequences of one-character      *)
(* strings, so that parseInt, trim, split and template-literal formatting  *)
(* are computed character by character as JavaScript computes them.        *)
(***************************************************************************)
EXTENDS Integers, Sequences, FiniteSets

(* ---------------------------- bounds ----------------------------------- *)

\* longest range expression enumerated exhaustively over Alphabet
MaxLen == 4

\* largest page count of the document being split (besides the 10-page one)
MaxPages == 4

(* --------------------------- characters -------------------------------- *)

Alphabet == {"0", "1", "2", "-", ",", " ", "x"}

DigitVal(c) ==
    CASE c = "0" -> 0 [] c = "1" -> 1 [] c = "2" -> 2 [] c = "3" -> 3
      [] c = "4" -> 4 [] c = "5" -> 5 [] c = "6" -> 6 [] c = "7" -> 7
      [] c = "8" -> 8 [] c = "9" -> 9 [] c = "a" -> 10 [] c = "b" -> 11
      [] c = "c" -> 12 [] c = "d" -> 13 [] c = "e" -> 14 [] c = "f" -> 15
      [] OTHER -> 99

DigitChar(d) ==
    CASE d = 0 -> "0" [] d = 1 -> "1" [] d = 2 -> "2" [] d = 3 -> "3"
      [] d = 4 -> "4" [] d = 5 -> "5" [] d = 6 -> "6" [] d = 7 -> "7"
      [] d = 8 -> "8" [] OTHER -> "9"

IsSpace(c) == c = " "

(* ------------------------ String.prototype ----------------------------- *)

RECURSIVE TrimStart(_)
TrimStart(s) ==
    IF s # <<>> /\ IsSpace(Head(s)) THEN TrimStart(Tail(s)) ELSE s

RECURSIVE TrimEnd(_)
TrimEnd(s) ==
    IF s # <<>> /\ IsSpace(s[Len(s)])
    THEN TrimEnd(SubSeq(s, 1, Len(s) - 1))
    ELSE s

Trim(s) == TrimEnd(TrimStart(s))

Includes(s, c) == \E k \in 1..Len(s) : s[k] = c

\* s.split(sep): the pieces between the separators, empty pieces included;
\* a string without separator (the empty string too) gives one piece
RECURSIVE SplitFrom(_, _, _)
SplitFrom(s, sep, cur) ==
    IF s = <<>> THEN <<cur>>
    ELSE IF Head(s) = sep THEN <<cur>> \o SplitFrom(Tail(s), sep, <<>>)
    ELSE SplitFrom(Tail(s), sep, Append(cur, Head(s)))

Split(s, sep) == SplitFrom(s, sep, <<>>)

(* ----------------------------- parseInt -------------------------------- *)

NaN == [nan |-> TRUE, val |-> 0]

Num(n) == [nan |-> FALSE, val |-> n]

\* value of the longest prefix of s made of digits of the radix, acc so far
RECURSIVE DigitsValue(_, _, _)
DigitsValue(s, radix, acc) ==
    IF s # <<>> /\ DigitVal(Head(s)) < radix
    THEN DigitsValue(Tail(s), radix, acc * radix + DigitVal(Head(s)))
    ELSE acc

\* parseInt(string, radix); radix 0 stands for an omitted radix, which is 10
\* unless the digits are prefixed by 0x
ParseInt(str, radix) ==
    LET s    == TrimStart(str)
        neg  == s # <<>> /\ Head(s) = "-"
        body == IF s # <<>> /\ Head(s) \in {"-", "+"} THEN Tail(s) ELSE s
        hex  == /\ radix = 0
                /\ Len(body) >= 2
                /\ body[1] = "0"
                /\ body[2] \in {"x", "X"}
        r    == IF hex THEN 16 ELSE 10
        ds   == IF hex THEN Tail(Tail(body)) ELSE body
    IN  IF ds = <<>> \/ DigitVal(Head(ds)) >= r
        THEN NaN
        ELSE Num(IF neg THEN 0 - DigitsValue(ds, r, 0)
                        ELSE DigitsValue(ds, r, 0))

\* String(n) and `${n}` of an integer
RECURSIVE NatToString(_)
NatToString(n) ==
    IF n < 10 THEN <<DigitChar(n)>>
    ELSE NatToString(n \div 10) \o <<DigitChar(n % 10)>>

NumberToString(n) ==
    IF n < 0 THEN <<"-">> \o NatToString(0 - n) ELSE NatToString(n)

\* relational operators of JavaScript: every comparison with NaN is false
Geq(a, b) == ~a.nan /\ ~b.nan /\ a.val >= b.val

Leq(a, b) == ~a.nan /\ ~b.nan /\ a.val <= b.val

(* ---------------------------- _parseRanges ----------------------------- *)

\* RangeAccepted without the test of end against maxPages
RangeAccepted_NoUpperBound(start, end, maxPages) ==
    Geq(start, Num(1)) /\ Leq(start, end)

\* start >= 1 && end <= maxPages && start <= end
RangeAccepted(start, end, maxPages) ==
    Geq(start, Num(1)) /\ Leq(end, Num(maxPages)) /\ Leq(start, end)

\* PageAccepted without the test of page against 1
PageAccepted_NoLowerBound(page, maxPages) ==
    ~page.nan /\ Leq(page, Num(maxPages))

\* page >= 1 && page <= maxPages
PageAccepted(page, maxPages) ==
    Geq(page, Num(1)) /\ Leq(page, Num(maxPages))

\* const [start, end] = trimmed.split('-').map(n => parseInt(n.trim()))
\* a part that includes '-' splits into two pieces at least; the pieces after
\* the second are not destructured
PartStart(trimmed) == ParseInt(Trim(Split(trimmed, "-")[1]), 0)

PartEnd(trimmed) == ParseInt(Trim(Split(trimmed, "-")[2]), 0)

\* one iteration of the loop over the parts: the ranges it pushes
ParsePart(part, maxPages) ==
    LET trimmed == Trim(part)
    IN  IF Includes(trimmed, "-")
        THEN IF RangeAccepted(PartStart(trimmed), PartEnd(trimmed), maxPages)
             THEN <<[start |-> PartStart(trimmed).val, end |-> PartEnd(trimmed).val]>>
             ELSE <<>>
        ELSE IF PageAccepted(ParseInt(trimmed, 0), maxPages)
             THEN <<[start |-> ParseInt(trimmed, 0).val,
                     end |-> ParseInt(trimmed, 0).val]>>
             ELSE <<>>

\* ParseParts with unshift in place of push
RECURSIVE ParseParts_Unshift(_, _, _)
ParseParts_Unshift(parts, maxPages, ranges) ==
    IF parts = <<>> THEN ranges
    ELSE ParseParts_Unshift(Tail(parts), maxPages,
                            ParsePart(Head(parts), maxPages) \o ranges)

RECURSIVE ParseParts(_, _, _)
ParseParts(parts, maxPages, ranges) ==
    IF parts = <<>> THEN ranges
    ELSE ParseParts(Tail(parts), maxPages,
                    ranges \o ParsePart(Head(parts), maxPages))

parseRanges(rangesString, maxPages) ==
    ParseParts(Split(rangesString, ","), maxPages, <<>>)

(* ------------------------- _splitWithPDFLib ---------------------------- *)

Max(a, b) == IF a >= b THEN a ELSE b

Min(a, b) == IF a <= b THEN a ELSE b

\* OrFive with 1 as the default
OrFive_DefaultOne(x) == IF x.nan \/ x.val = 0 THEN 1 ELSE x.val

\* x || 5 on a number: 0 and NaN are falsy
OrFive(x) == IF x.nan \/ x.val = 0 THEN 5 ELSE x.val

\* Math.max(1, parseInt(ranges || '5', 10) || 5); the empty string stands
\* for every falsy ranges argument (null as well)
PagesPerChunk(ranges) ==
    Max(1, OrFive(ParseInt(IF ranges = <<>> THEN <<"5">> ELSE ranges, 10)))

\* for (let j = from; j < to; j++) pageIndices.push(j)
IndicesFrom(from, to) == [k \in 1..(to - from) |-> from + k - 1]

\* EachIndices with the 1-based page number as the index
EachIndices_OneBased(k) == <<k + 1>>

EachIndices(k) == <<k>>

EachName(k) ==
    <<"p", "a", "g", "e", "_">> \o NumberToString(k + 1)
        \o <<".", "p", "d", "f">>

\* EndPage without the cut at the page count
EndPage_Uncut(k, perChunk, count) == k + perChunk

EndPage(k, perChunk, count) == Min(k + perChunk, count)

\* ChunkName with the 0-based index of the first page
ChunkName_ZeroBased(k, endPage) ==
    <<"p", "a", "g", "e", "s", "_">> \o NumberToString(k) \o <<"-">>
        \o NumberToString(endPage) \o <<".", "p", "d", "f">>

ChunkName(k, endPage) ==
    <<"p", "a", "g", "e", "s", "_">> \o NumberToString(k + 1) \o <<"-">>
        \o NumberToString(endPage) \o <<".", "p", "d", "f">>

\* RangeIndices starting at the 1-based start
RangeIndices_OneBased(range) == IndicesFrom(range.start, range.end)

RangeIndices(range) == IndicesFrom(range.start - 1, range.end)

RangeName(range) ==
    <<"p", "a", "g", "e", "s", "_">> \o NumberToString(range.start) \o <<"-">>
        \o NumberToString(range.end) \o <<".", "p", "d", "f">>

(* ------------------------------ inputs --------------------------------- *)

Strings(n) == UNION {[1..k -> Alphabet] : k \in 0..n}

ExampleInputs ==
    { <<"1", "-", "3", ",", "5", ",", "7", "-", "9">>,
      <<"0", "-", "2">>,
      <<"3", "-", "1">>,
      <<"1", "-", "2", "-", "3">>,
      <<"2", "x">>,
      <<"-", "3">>,
      <<" ", "1", " ", "-", " ", "2", " ">>,
      <<"2", ",", "2", "-", "3", ",", "1">>,
      <<"3">>,
      <<"5">>,
      <<"1", "0">>,
      <<"0", "-", "2", ",", "3", ",", "1", "1">> }

Inputs == Strings(MaxLen) \cup ExampleInputs

PageCounts == (1..MaxPages) \cup {10}

Methods == {"each", "pages", "range"}

(* ------------------------------- state --------------------------------- *)

VARIABLES
    pc,            \* where the split in progress stands
    pageCount,     \* pdfDoc.getPageCount() of this.splitFile
    caller,        \* "app": App.splitPdf awaits the service; "direct": a
                   \* direct call of PdfService.splitPdf
    method,        \* the method argument
    ranges,        \* the ranges argument
    pagesPerChunk, \* local of the 'pages' branch
    rangeList,     \* local of the 'range' branch
    i,             \* loop variable of the branch taken
    splitPdfs,     \* the outputs pushed so far: [name, pages]
    downloads,     \* names of the download links App.splitPdf shows
    resultsShown,  \* 'split-results' has class show
    error,         \* message of Utils.showError, "" when none
    result         \* what the caller of PdfService.splitPdf has received

\* the page tools: merge, rotate, crop, page numbers
VARIABLES
    tool,          \* the tool whose handler runs or has run, "none" at first
    tpc,           \* where that handler stands
    files,         \* the documents given to the tool, each a list of pages
    args,          \* the arguments App passes to the service (and, for the
                   \* page numbers, the field startNum was read from)
    work,          \* the working document of the service (pdfDoc, mergedPdf)
    fileIndex,     \* loop index: the next file to merge, the next page to
                   \* compress
    out,           \* what the handler received from the service
    links,         \* names of the download links the tool shows
    toolError      \* message of Utils.showError, "" when none

\* the view model of the two converters
VARIABLES
    state,         \* ViewModel.state
    convs,         \* the calls of convertPdfToImages and convertImagesToPdf
                   \* made so far, each with its locals and how it stands
    view           \* what App shows for the converted images

\* the redaction tool
VARIABLES
    redact         \* the fields of App the redaction uses, the state of its
                   \* mouse handlers, and where applyRedaction stands

\* the table extraction
VARIABLES
    table          \* this.tableFile, the locals of extractTableFromPdf and
                   \* what extractTable shows

\* the rasterizing page loops
VARIABLES
    raster         \* the loop of the rasterizing function that runs or has
                   \* run, and the canvases it has created

\* the rasterizing fallback of the split
VARIABLES
    manual         \* the locals of _splitManually, run on the arguments of the
                   \* split that has returned

\* setState, one step of its loops at a time
VARIABLES
    setter         \* a ViewModel whose setters are called one after the
                   \* other: its state, the locals of the setState that runs
                   \* and the calls its observer has received

splitVars == <<pc, pageCount, caller, method, ranges, pagesPerChunk, rangeList,
               i, splitPdfs, downloads, resultsShown, error, result>>

toolVars == <<tool, tpc, files, args, work, fileIndex, out, links, toolError>>

vmVars == <<state, convs, view>>

extVars == <<redact, table, raster, manual, setter>>

notRedact == <<splitVars, toolVars, vmVars, table, raster, manual, setter>>

notTable == <<splitVars, toolVars, vmVars, redact, raster, manual, setter>>

notRaster == <<splitVars, toolVars, vmVars, redact, table, manual, setter>>

notManual == <<splitVars, toolVars, vmVars, redact, table, raster, setter>>

notSetter == <<splitVars, toolVars, vmVars, redact, table, raster, manual>>

vars == <<splitVars, toolVars, vmVars, extVars>>

NoError == ""

EnterRanges == "Please enter page ranges (e.g., 1-3, 5-7)"

EnterPages == "Please enter a valid number of pages per file (>=1)."

SplitFailed == "Failed to split PDF: Failed to split PDF: copy failed"

\* what a caller holds while its call is pending, after it returned a value
\* and after it threw
Pending == [kind |-> "pending", value |-> <<>>]

Returned(v) == [kind |-> "value", value |-> v]

Thrown == [kind |-> "error", value |-> <<>>]

InitSplit ==
    /\ pc = "idle"
    /\ pageCount \in PageCounts
    /\ caller = "none"
    /\ method = "none"
    /\ ranges = <<>>
    /\ pagesPerChunk = 0
    /\ rangeList = <<>>
    /\ i = 0
    /\ splitPdfs = <<>>
    /\ downloads = <<>>
    /\ resultsShown = FALSE
    /\ error = NoError
    /\ result = Pending

InitTools ==
    /\ tool = "none"
    /\ tpc = "idle"
    /\ files = <<>>
    /\ args = <<>>
    /\ work = <<>>
    /\ fileIndex = 0
    /\ out = Pending
    /\ links = <<>>
    /\ toolError = NoError

NoFile == [name |-> "", pages |-> 0]

\* the state set by the constructor of ViewModel; null is NoFile for a file
\* and "" for the error
InitVM ==
    /\ state = [ selectedPdf    |-> NoFile,
                 selectedImages |-> <<>>,
                 isLoading      |-> FALSE,
                 resultBlobs    |-> <<>>,
                 activeTab      |-> "pdf-to-images",
                 error          |-> NoError ]
    /\ convs = <<>>
    /\ view = [ convertedImageBlobs |-> <<>>,
                imageLinks          |-> <<>>,
                zipButton           |-> FALSE,
                resultsShown        |-> FALSE,
                zipNames            |-> <<>>,
                zipError            |-> NoError ]

\* no file is chosen for the redaction, no rectangle is drawn
InitRedact ==
    redact = [ file      |-> NoFile,
               preview   |-> "none",
               rects     |-> <<>>,
               isDrawing |-> FALSE,
               start     |-> [x |-> 0, y |-> 0],
               temp      |-> <<>>,
               pc        |-> "idle",
               callFile  |-> NoFile,
               args      |-> <<>>,
               argsLive  |-> FALSE,
               out       |-> Pending,
               links     |-> <<>>,
               error     |-> NoError ]

\* no file is chosen for the table extraction
InitTable ==
    table = [ file    |-> <<>>,
              chosen  |-> FALSE,
              pc      |-> "idle",
              pageNum |-> 1,
              allRows |-> <<>>,
              out     |-> Pending,
              links   |-> <<>>,
              error   |-> NoError ]

\* no rasterizing function has been called
InitRaster ==
    raster = [ fn       |-> "none",
               pc       |-> "idle",
               numPages |-> 0,
               pageNum  |-> 0,
               canvases |-> <<>>,
               pushed   |-> 0 ]

\* _splitManually has not been called
InitManual ==
    manual = [ pc            |-> "idle",
               at            |-> 0,
               pagesPerChunk |-> 0,
               rangeList     |-> <<>>,
               splitPdfs     |-> <<>>,
               out           |-> Pending ]

\* a ViewModel as its constructor leaves it, no setter called yet
InitSetter ==
    setter = [ pc                |-> "idle",
               state             |-> [ selectedPdf    |-> NoFile,
                                       selectedImages |-> <<>>,
                                       isLoading      |-> FALSE,
                                       resultBlobs    |-> <<>>,
                                       activeTab      |-> "pdf-to-images",
                                       error          |-> NoError ],
               before            |-> [ selectedPdf    |-> NoFile,
                                       selectedImages |-> <<>>,
                                       isLoading      |-> FALSE,
                                       resultBlobs    |-> <<>>,
                                       activeTab      |-> "pdf-to-images",
                                       error          |-> NoError ],
               entries           |-> <<>>,
               at                |-> 0,
               changedProperties |-> <<>>,
               calls             |-> <<>> ]

InitExt == InitRedact /\ InitTable /\ InitRaster /\ InitManual /\ InitSetter

\* a file has been chosen (this.splitFile is set); nothing is in progress
Init == InitSplit /\ InitTools /\ InitVM /\ InitExt

\* the call PdfService.splitPdf(this.splitFile, m, r) made by c
CallService(c, m, r) ==
    /\ pc' = "splitPdf"
    /\ caller' = c
    /\ method' = m
    /\ ranges' = r
    /\ UNCHANGED <<pageCount, pagesPerChunk, rangeList, i, splitPdfs,
                   downloads, resultsShown, error, result>>
    /\ UNCHANGED <<toolVars, vmVars, extVars>>

\* App.splitPdf returning early after Utils.showError(msg)
Reject(msg) ==
    /\ pc' = "done"
    /\ caller' = "app"
    /\ error' = msg
    /\ UNCHANGED <<pageCount, method, ranges, pagesPerChunk, rangeList, i,
                   splitPdfs, downloads, resultsShown, result>>
    /\ UNCHANGED <<toolVars, vmVars, extVars>>

\* App.splitPdf with 'split-method' = each
AppSplitEach ==
    /\ pc = "idle"
    /\ CallService("app", "each", <<>>)

\* App.splitPdf with 'split-method' = pages and the prompt answered by input
\* (the empty string also stands for a cancelled prompt: parseInt gives NaN)
AppSplitPages ==
    /\ pc = "idle"
    /\ \E input \in Inputs :
         LET pagesPerFile == ParseInt(input, 10)
         IN  IF pagesPerFile.nan \/ pagesPerFile.val = 0 \/ pagesPerFile.val < 1
             THEN Reject(EnterPages)
             ELSE CallService("app", "pages", NumberToString(pagesPerFile.val))

\* App.splitPdf with 'split-method' = range and 'page-ranges' holding value
AppSplitRange ==
    /\ pc = "idle"
    /\ \E value \in Inputs :
         IF value = <<>> \/ Trim(value) = <<>>
         THEN Reject(EnterRanges)
         ELSE CallService("app", "range", value)

\* PdfService.splitPdf(file, m, r) called directly
ServiceSplitPdf ==
    /\ pc = "idle"
    /\ \E m \in Methods, r \in Inputs :
         /\ (m = "each") => (r = <<>>)
         /\ CallService("direct", m, r)

\* _splitWithPDFLib up to the first iteration of the branch it takes
SplitWithPDFLib ==
    /\ pc = "splitPdf"
    /\ splitPdfs' = <<>>
    /\ i' = 0
    /\ pagesPerChunk' = IF method = "pages" THEN PagesPerChunk(ranges) ELSE 0
    /\ rangeList' = IF method = "range" /\ ranges # <<>>
                    THEN parseRanges(ranges, pageCount) ELSE <<>>
    /\ pc' = CASE method = "each" -> "each"
               [] method = "pages" -> "pages"
               [] method = "range" /\ ranges # <<>> -> "range"
               [] OTHER -> "return"
    /\ UNCHANGED <<pageCount, caller, method, ranges, downloads, resultsShown,
                   error, result>>
    /\ UNCHANGED <<toolVars, vmVars, extVars>>

\* one iteration of the loop of method 'each'
EachIteration ==
    /\ pc = "each"
    /\ i < pageCount
    /\ splitPdfs' = Append(splitPdfs, [name |-> EachName(i), pages |-> EachIndices(i)])
    /\ i' = i + 1
    /\ UNCHANGED <<pc, pageCount, caller, method, ranges, pagesPerChunk,
                   rangeList, downloads, resultsShown, error, result>>
    /\ UNCHANGED <<toolVars, vmVars, extVars>>

\* one iteration of the outer loop of method 'pages'
PagesIteration ==
    /\ pc = "pages"
    /\ i < pageCount
    /\ LET endPage == EndPage(i, pagesPerChunk, pageCount)
       IN  splitPdfs' = Append(splitPdfs, [name |-> ChunkName(i, endPage),
                                           pages |-> IndicesFrom(i, endPage)])
    /\ i' = i + pagesPerChunk
    /\ UNCHANGED <<pc, pageCount, caller, method, ranges, pagesPerChunk,
                   rangeList, downloads, resultsShown, error, result>>
    /\ UNCHANGED <<toolVars, vmVars, extVars>>

\* one iteration of the outer loop of method 'range'
RangeIteration ==
    /\ pc = "range"
    /\ i < Len(rangeList)
    /\ LET range == rangeList[i + 1]
       IN  splitPdfs' = Append(splitPdfs, [name |-> RangeName(range),
                                           pages |-> RangeIndices(range)])
    /\ i' = i + 1
    /\ UNCHANGED <<pc, pageCount, caller, method, ranges, pagesPerChunk,
                   rangeList, downloads, resultsShown, error, result>>
    /\ UNCHANGED <<toolVars, vmVars, extVars>>

\* the loop of the branch taken has ended (or no branch was taken)
LoopEnded ==
    \/ pc = "each" /\ i >= pageCount
    \/ pc = "pages" /\ i >= pageCount
    \/ pc = "range" /\ i >= Len(rangeList)
    \/ pc = "return"

Names(outputs) == [k \in 1..Len(outputs) |-> outputs[k].name]

\* return splitPdfs to App.splitPdf, which shows one download link per output
ReturnToApp ==
    /\ LoopEnded
    /\ caller = "app"
    /\ pc' = "done"
    /\ result' = Returned(splitPdfs)
    /\ downloads' = Names(splitPdfs)
    /\ resultsShown' = TRUE
    /\ UNCHANGED <<pageCount, caller, method, ranges, pagesPerChunk, rangeList,
                   i, splitPdfs, error>>
    /\ UNCHANGED <<toolVars, vmVars, extVars>>

\* return splitPdfs to the direct caller
ReturnToCaller ==
    /\ LoopEnded
    /\ caller = "direct"
    /\ pc' = "done"
    /\ result' = Returned(splitPdfs)
    /\ UNCHANGED <<pageCount, caller, method, ranges, pagesPerChunk, rangeList,
                   i, splitPdfs, downloads, resultsShown, error>>
    /\ UNCHANGED <<toolVars, vmVars, extVars>>

\* Thrown with the outputs built so far handed to the caller
Thrown_Partial(outputs) == Returned(outputs)

\* what the catch of PdfService.splitPdf hands to the caller: the rethrown
\* error, the outputs pushed before the throw being dropped with the frame
SplitThrows(outputs) == Thrown

\* an await of the split rejects: the load of the document, or copyPages or
\* save in the iteration about to run; splitPdf rethrows, App.splitPdf shows
\* the message and no results
SplitFails ==
    /\ \/ pc = "splitPdf"
       \/ pc \in {"each", "pages"} /\ i < pageCount
       \/ pc = "range" /\ i < Len(rangeList)
    /\ pc' = "failed"
    /\ result' = SplitThrows(splitPdfs)
    /\ error' = IF caller = "app" THEN SplitFailed ELSE error
    /\ UNCHANGED <<pageCount, caller, method, ranges, pagesPerChunk, rangeList,
                   i, splitPdfs, downloads, resultsShown>>
    /\ UNCHANGED <<toolVars, vmVars, extVars>>

Next ==
    \/ AppSplitEach
    \/ AppSplitPages
    \/ AppSplitRange
    \/ ServiceSplitPdf
    \/ SplitWithPDFLib
    \/ EachIteration
    \/ PagesIteration
    \/ RangeIteration
    \/ ReturnToApp
    \/ ReturnToCaller
    \/ SplitFails

Spec == Init /\ [][Next]_vars

(* ------------------------------ page tools ---------------------------- *)

\* most pages of a document given to a tool
MaxDocPages == 3

\* most documents given to a merge
MaxFiles == 2

\* 1 mm = 2.83465 points; lengths are counted in 1/100000 point, so that the
\* products of the crop are exact
Mm == 283465

PointUnits == 100000

Rotations == {0, 90}

\* page n (1-based) of the document named f: pages differ in rotation, size
\* and origin of their media box
SourcePage(f, n) ==
    [ src    |-> <<f, n - 1>>,
      rot    |-> (f[2] + 90 * (n - 1)) % 360,
      x      |-> IF n = 2 THEN 10 * PointUnits ELSE 0,
      y      |-> 0,
      w      |-> (200 + 50 * n) * PointUnits,
      h      |-> 300 * PointUnits,
      stamps |-> <<>> ]

\* the document with count pages whose first page is rotated by rot
Document(count, rot) == [n \in 1..count |-> SourcePage(<<count, rot>>, n)]

Docs == {Document(count, rot) : count \in 1..MaxDocPages, rot \in Rotations}

FileLists == UNION {[1..n -> Docs] : n \in 1..MaxFiles}

AngleFields ==
    { <<"9", "0">>, <<"1", "8", "0">>, <<"2", "7", "0">>, <<"4", "5">>,
      <<"3", "6", "0">>, <<"-", "9", "0">>, <<"0">>, <<>> }

MarginFields == { <<>>, <<"0">>, <<"2", "0">>, <<"-", "2", "0">>, <<"8", "0">> }

StartFields ==
    { <<>>, <<"0">>, <<"1">>, <<"5">>, <<"-", "2">>, <<"x">>, <<"9">> }

RotateFailed == "Failed to rotate PDF: Failed to rotate PDF: degreesAngle must be a multiple of 90"

CropFailed == "Failed to crop PDF: Cropping failed"

NumberingFailed == "Failed to add page numbers: Page numbering failed"

MergeFailed == "Failed to merge PDFs: Failed to merge PDFs"

CompressFailed == "Failed to compress PDF: Failed to compress PDF"

\* parseFloat of a field without '.', 'e' or "Infinity": the leading decimal
\* integer, NaN when there is none
ParseFloat(str) == ParseInt(str, 10)

\* x || 0 and x || 1 on a number
OrZero(x) == IF x.nan \/ x.val = 0 THEN 0 ELSE x.val

OrOne(x) == IF x.nan \/ x.val = 0 THEN 1 ELSE x.val

\* a tool handler takes its file and arguments and calls the service
StartTool(t, fs, a) ==
    /\ tool' = t
    /\ tpc' = "call"
    /\ files' = fs
    /\ args' = a
    /\ work' = <<>>
    /\ fileIndex' = 0
    /\ UNCHANGED <<out, links, toolError>>
    /\ UNCHANGED <<splitVars, vmVars, extVars>>

\* the service returns doc and the handler shows one download link
FinishTool(doc, name) ==
    /\ tpc' = "done"
    /\ work' = doc
    /\ out' = Returned(doc)
    /\ links' = <<name>>
    /\ UNCHANGED <<tool, files, args, fileIndex, toolError>>
    /\ UNCHANGED <<splitVars, vmVars, extVars>>

\* the service throws and the handler shows msg
FailTool(msg) ==
    /\ tpc' = "failed"
    /\ out' = Thrown
    /\ toolError' = msg
    /\ UNCHANGED <<tool, files, args, work, fileIndex, links>>
    /\ UNCHANGED <<splitVars, vmVars, extVars>>

(* rotatePdf *)

\* App.rotatePdf: angle = parseInt(field)
AppRotatePdf ==
    /\ tpc = "idle"
    /\ \E d \in Docs, field \in AngleFields :
        StartTool("rotate", <<d>>, [angle |-> ParseInt(field, 0)])

\* parseInt(angle) in the service, of the number App passes
AngleValue(angle) ==
    IF angle.nan THEN NaN ELSE ParseInt(NumberToString(angle.val), 0)

\* PDFPage.setRotation of pdf-lib asserts that the angle is a number and a
\* multiple of 90, and throws otherwise
SetRotationThrows(angleValue) == angleValue.nan \/ angleValue.val % 90 # 0

\* page.setRotation(PDFLib.degrees(angleValue)) stores the angle as given
SetRotation(page, angleValue) == [page EXCEPT !.rot = angleValue.val]

\* RotatePdf leaving a page as it is when its setRotation throws
RotatePdf_SkipsFailure ==
    /\ tool = "rotate"
    /\ tpc = "call"
    /\ LET pages      == files[1]
           angleValue == AngleValue(args.angle)
       IN  FinishTool([n \in 1..Len(pages) |->
                          IF SetRotationThrows(angleValue) THEN pages[n]
                          ELSE SetRotation(pages[n], angleValue)],
                      "rotated.pdf")

\* PdfService.rotatePdf after the load, and the rest of App.rotatePdf
RotatePdf ==
    /\ tool = "rotate"
    /\ tpc = "call"
    /\ LET pages      == files[1]
           angleValue == AngleValue(args.angle)
       IN  IF Len(pages) > 0 /\ SetRotationThrows(angleValue)
           THEN FailTool(RotateFailed)
           ELSE FinishTool([n \in 1..Len(pages) |-> SetRotation(pages[n], angleValue)],
                           "rotated.pdf")

(* cropPdf *)

\* App.cropPdf: each margin is parseFloat(field) || 0
AppCropPdf ==
    /\ tpc = "idle"
    /\ \E d \in Docs, t, r, b, l \in MarginFields, all \in BOOLEAN :
        StartTool("crop", <<d>>,
                  [ top |-> OrZero(ParseFloat(t)), right |-> OrZero(ParseFloat(r)),
                    bottom |-> OrZero(ParseFloat(b)), left |-> OrZero(ParseFloat(l)),
                    allPages |-> all ])

\* Cropped with the break one page late
Cropped_BreakLate(n, allPages) == allPages \/ n <= 1

\* the loop runs for page index n (0-based) unless !allPages && n > 0
Cropped(n, allPages) == allPages \/ n = 0

\* CropPage measuring the new box from the origin of the old one
CropPage_FromOldOrigin(page, a) ==
    [page EXCEPT !.x = a.left * Mm,
                 !.y = a.bottom * Mm,
                 !.w = (page.w - a.right * Mm) - (page.x + a.left * Mm),
                 !.h = (page.h - a.top * Mm) - (page.y + a.bottom * Mm)]

\* page.setMediaBox(left*mm, bottom*mm, width - right*mm - left*mm,
\*                  height - top*mm - bottom*mm); pdf-lib stores the box as given
CropPage(page, a) ==
    [page EXCEPT !.x = a.left * Mm,
                 !.y = a.bottom * Mm,
                 !.w = (page.w - a.right * Mm) - a.left * Mm,
                 !.h = (page.h - a.top * Mm) - a.bottom * Mm]

\* PdfService.cropPdf after the load, and the rest of App.cropPdf
CropPdf ==
    /\ tool = "crop"
    /\ tpc = "call"
    /\ FinishTool([n \in 1..Len(files[1]) |->
                      IF Cropped(n - 1, args.allPages)
                      THEN CropPage(files[1][n], args)
                      ELSE files[1][n]],
                  "cropped.pdf")

(* addPageNumbers *)

\* App.addPageNumbers: startNum = parseInt(field) || 1
AppAddPageNumbers ==
    /\ tpc = "idle"
    /\ \E d \in Docs, field \in StartFields :
        StartTool("pagenum", <<d>>, [startNum |-> OrOne(ParseInt(field, 0)),
                                     field |-> field])

\* page.drawText(`${startNum + n}`) on the page of index n (0-based)
StampPage(page, n, startNum) ==
    [page EXCEPT !.stamps = Append(page.stamps, NumberToString(startNum + n))]

\* PdfService.addPageNumbers after the load, and the rest of the handler
AddPageNumbers ==
    /\ tool = "pagenum"
    /\ tpc = "call"
    /\ FinishTool([n \in 1..Len(files[1]) |->
                      StampPage(files[1][n], n - 1, args.startNum)],
                  "numbered.pdf")

(* mergePdfs *)

\* App.mergePdfs with this.mergeFiles = fs
AppMergePdfs ==
    /\ tpc = "idle"
    /\ \E fs \in FileLists : StartTool("merge", fs, <<>>)

\* pdf.getPageIndices(): 0, 1, ..., count-1
PageIndices(doc) == [n \in 1..Len(doc) |-> n - 1]

\* CopyPages handing the pages back last page first
CopyPages_Reversed(doc, indices) ==
    [n \in 1..Len(indices) |-> doc[indices[Len(indices) + 1 - n] + 1]]

\* mergedPdf.copyPages(pdf, indices): the pages of pdf at the indices, in
\* the order of the indices
CopyPages(doc, indices) == [n \in 1..Len(indices) |-> doc[indices[n] + 1]]

\* one iteration of the loop over the files: every copied page is added
MergeIteration ==
    /\ tool = "merge"
    /\ tpc = "call"
    /\ fileIndex < Len(files)
    /\ work' = work \o CopyPages(files[fileIndex + 1], PageIndices(files[fileIndex + 1]))
    /\ fileIndex' = fileIndex + 1
    /\ UNCHANGED <<tool, tpc, files, args, out, links, toolError>>
    /\ UNCHANGED <<splitVars, vmVars, extVars>>

\* the loop has ended: mergedPdf is saved and returned
MergeReturn ==
    /\ tool = "merge"
    /\ tpc = "call"
    /\ fileIndex = Len(files)
    /\ FinishTool(work, "merged.pdf")

(* compressPdf *)

\* App.compressPdf with this.compressFile = d
AppCompressPdf ==
    /\ tpc = "idle"
    /\ \E d \in Docs : StartTool("compress", <<d>>, <<>>)

\* the page rendered to a canvas and added as a JPEG filling a new page
Rasterize(page) == [src |-> page.src, raster |-> TRUE]

\* one iteration of the loop over the pages
CompressIteration ==
    /\ tool = "compress"
    /\ tpc = "call"
    /\ fileIndex < Len(files[1])
    /\ work' = Append(work, Rasterize(files[1][fileIndex + 1]))
    /\ fileIndex' = fileIndex + 1
    /\ UNCHANGED <<tool, tpc, files, args, out, links, toolError>>
    /\ UNCHANGED <<splitVars, vmVars, extVars>>

\* the loop has ended: compressedPdf.output('blob') is returned
CompressReturn ==
    /\ tool = "compress"
    /\ tpc = "call"
    /\ fileIndex = Len(files[1])
    /\ FinishTool(work, "compressed.pdf")

\* what the catch of a tool hands to its caller: the rethrown error
ToolThrows(doc) == Thrown

\* an await of the service rejects: the load of a file, copyPages or the save
ToolFails ==
    /\ tpc = "call"
    /\ tool = "merge" => fileIndex < Len(files)
    /\ tool = "compress" => fileIndex < Len(files[1])
    /\ tpc' = "failed"
    /\ out' = ToolThrows(work)
    /\ toolError' = CASE tool = "rotate" -> RotateFailed
                      [] tool = "crop" -> CropFailed
                      [] tool = "pagenum" -> NumberingFailed
                      [] tool = "compress" -> CompressFailed
                      [] OTHER -> MergeFailed
    /\ UNCHANGED <<tool, files, args, work, fileIndex, links>>
    /\ UNCHANGED <<splitVars, vmVars, extVars>>

NextTools ==
    \/ AppRotatePdf
    \/ RotatePdf
    \/ AppCropPdf
    \/ CropPdf
    \/ AppAddPageNumbers
    \/ AddPageNumbers
    \/ AppMergePdfs
    \/ MergeIteration
    \/ MergeReturn
    \/ AppCompressPdf
    \/ CompressIteration
    \/ CompressReturn
    \/ ToolFails

SpecTools == Init /\ [][NextTools]_vars

(* ------------------------------ view model ---------------------------- *)

\* most calls of the two converters in one run
MaxConversions == 2

PdfFiles == {[name |-> "a.pdf", pages |-> 1], [name |-> "b.pdf", pages |-> 2]}

ImageLists == {<<"i.png">>, <<"i.png", "j.png">>}

Tabs == {"pdf-to-images", "images-to-pdf"}

Formats == {"png", "jpeg"}

PdfToImagesFailed == "Failed to convert PDF to images: render failed"

ImagesToPdfFailed == "Failed to convert images to PDF: image failed"

\* setState(updates): every key of updates is written into the state
SetState(st, updates) ==
    [key \in DOMAIN st |->
        IF key \in DOMAIN updates THEN updates[key] ELSE st[key]]

\* the keys of the state, in an order that agrees with the order of the keys
\* in every update the view model makes
KeyOrder == <<"activeTab", "selectedPdf", "selectedImages", "isLoading",
              "resultBlobs", "error">>

\* this.state[key] !== value: a File, and an array, which every caller
\* creates for the call, is a new object; null, booleans and strings compare
\* by value
Differs(key, old, value) ==
    CASE key \in {"selectedImages", "resultBlobs"} -> TRUE
      [] key = "selectedPdf" -> old # NoFile \/ value # NoFile
      [] OTHER -> old # value

\* changedProperties of setState(updates)
ChangedProperties(st, updates) ==
    SelectSeq(KeyOrder, LAMBDA key : /\ key \in DOMAIN updates
                                     /\ Differs(key, st[key], updates[key]))

\* the observer calls of setState(updates): after the loop that writes, one
\* notify per changed key, the observer being handed this.state
Notifications(st, updates) ==
    LET changed == ChangedProperties(st, updates)
    IN  [k \in 1..Len(changed) |->
            [key |-> changed[k], seen |-> SetState(st, updates)]]

\* SetLoading that never clears the flag
SetLoading_OnlySets(st, isLoading) == SetState(st, [isLoading |-> TRUE])

\* setLoading(isLoading)
SetLoading(st, isLoading) == SetState(st, [isLoading |-> isLoading])

ClearError(st) == SetState(st, [error |-> NoError])

SetError(st, msg) == SetState(st, [error |-> msg])

SetResultBlobs(st, blobs) == SetState(st, [resultBlobs |-> blobs])

\* `page-${index + 1}.png`
ImageLinkName(index) ==
    <<"p", "a", "g", "e", "-">> \o NumberToString(index + 1)
        \o <<".", "p", "n", "g">>

\* `page_${i + 1}.png`
ZipEntryName(index) ==
    <<"p", "a", "g", "e", "_">> \o NumberToString(index + 1)
        \o <<".", "p", "n", "g">>

\* updateImageResults(imageBlobs)
UpdateImageResults(v, imageBlobs) ==
    IF Len(imageBlobs) > 0
    THEN [v EXCEPT !.convertedImageBlobs = imageBlobs,
                   !.zipButton = Len(imageBlobs) > 1,
                   !.imageLinks = [k \in 1..Len(imageBlobs) |->
                                      ImageLinkName(k - 1)],
                   !.resultsShown = TRUE]
    ELSE [v EXCEPT !.convertedImageBlobs = <<>>,
                   !.zipButton = FALSE,
                   !.resultsShown = FALSE]

\* the observer App subscribes: of what it updates, the image results are
\* modelled; updatePdfResults writes elsewhere
Observer(v, call) ==
    IF call.key = "resultBlobs" /\ call.seen.activeTab = "pdf-to-images"
    THEN UpdateImageResults(v, call.seen.resultBlobs)
    ELSE v

RECURSIVE ObserveAll(_, _)
ObserveAll(v, calls) ==
    IF calls = <<>> THEN v ELSE ObserveAll(Observer(v, Head(calls)), Tail(calls))

\* what the handler that made these observer calls leaves of the view
Observed(calls) == ObserveAll(view, calls)

\* setSelectedPdf(file), from the change of 'pdf-input'
SetSelectedPdf ==
    /\ \E file \in PdfFiles :
          LET updates == [selectedPdf |-> file, resultBlobs |-> <<>>, error |-> NoError]
          IN  /\ state' = SetState(state, updates)
              /\ view' = Observed(Notifications(state, updates))
    /\ UNCHANGED convs
    /\ UNCHANGED <<splitVars, toolVars, extVars>>

\* setSelectedImages(files), from the change of 'images-input'
SetSelectedImages ==
    /\ \E imgs \in ImageLists :
          LET updates == [selectedImages |-> imgs, resultBlobs |-> <<>>, error |-> NoError]
          IN  /\ state' = SetState(state, updates)
              /\ view' = Observed(Notifications(state, updates))
    /\ UNCHANGED convs
    /\ UNCHANGED <<splitVars, toolVars, extVars>>

\* setActiveTab(tab), from switchTab
SetActiveTab ==
    /\ \E tab \in Tabs :
          LET updates == [activeTab |-> tab, selectedPdf |-> NoFile, selectedImages |-> <<>>, resultBlobs |-> <<>>, error |-> NoError]
          IN  /\ state' = SetState(state, updates)
              /\ view' = Observed(Notifications(state, updates))
    /\ UNCHANGED convs
    /\ UNCHANGED <<splitVars, toolVars, extVars>>

\* a call of a converter up to its await of the service: setLoading(true),
\* clearError(), then the service is called with the selection of that moment
StartConversion(kind, input, fmt) ==
    /\ Len(convs) < MaxConversions
    /\ state' = ClearError(SetLoading(state, TRUE))
    /\ view' = Observed(Notifications(state, [isLoading |-> TRUE])
                        \o Notifications(SetLoading(state, TRUE),
                                         [error |-> NoError]))
    /\ convs' = Append(convs, [ kind |-> kind, input |-> input, fmt |-> fmt,
                                pageNum |-> 1, imageBlobs |-> <<>>,
                                status |-> "running" ])
    /\ UNCHANGED <<splitVars, toolVars, extVars>>

\* convertPdfToImages with a PDF selected; fmt is the value of 'img-format'
ConvertPdfToImages ==
    /\ state.selectedPdf # NoFile
    /\ \E fmt \in Formats : StartConversion("pdf", state.selectedPdf, fmt)

\* convertImagesToPdf with images selected
ConvertImagesToPdf ==
    /\ Len(state.selectedImages) # 0
    /\ StartConversion("images", state.selectedImages, "pdf")

\* the type canvas.toBlob is asked for
BlobType(fmt) == IF fmt \in {"jpeg", "jpg"} THEN "image/jpeg" ELSE "image/png"

\* one iteration of the page loop of pdfFileToImages in call c
RenderPage ==
    \E c \in 1..Len(convs) :
    /\ convs[c].status = "running"
    /\ convs[c].kind = "pdf"
    /\ convs[c].pageNum <= convs[c].input.pages
    /\ convs' = [convs EXCEPT
                   ![c].imageBlobs = Append(@, [ of   |-> convs[c].input.name,
                                                 page |-> convs[c].pageNum,
                                                 type |-> BlobType(convs[c].fmt) ]),
                   ![c].pageNum = @ + 1]
    /\ UNCHANGED <<state, view>>
    /\ UNCHANGED <<splitVars, toolVars, extVars>>

\* what the service hands back when it resolves
ServiceValue(conv) ==
    IF conv.kind = "pdf" THEN conv.imageBlobs
    ELSE <<[of |-> conv.input, page |-> 0, type |-> "application/pdf"]>>

\* the service of call c resolves: setResultBlobs(value), then the finally
\* block: setLoading(false)
ConversionResolves ==
    \E c \in 1..Len(convs) :
    /\ convs[c].status = "running"
    /\ convs[c].kind = "pdf" => convs[c].pageNum > convs[c].input.pages
    /\ state' = SetLoading(SetResultBlobs(state, ServiceValue(convs[c])), FALSE)
    /\ view' = Observed(Notifications(state,
                                      [resultBlobs |-> ServiceValue(convs[c])])
                        \o Notifications(SetResultBlobs(state,
                                                        ServiceValue(convs[c])),
                                         [isLoading |-> FALSE]))
    /\ convs' = [convs EXCEPT ![c].status = "resolved"]
    /\ UNCHANGED <<splitVars, toolVars, extVars>>

FailureMessage(conv) ==
    IF conv.kind = "pdf" THEN PdfToImagesFailed ELSE ImagesToPdfFailed

\* Caught with the results cleared as well
Caught_ClearsResults(st, msg) ==
    SetState(st, [error |-> msg, resultBlobs |-> <<>>])

\* the catch block of a converter: setError(error.message)
Caught(st, msg) == SetError(st, msg)

\* an await of the service of call c rejects (the load, a page, a render, an
\* image): the service rethrows, the catch block and the finally block run
ConversionFails ==
    \E c \in 1..Len(convs) :
    /\ convs[c].status = "running"
    /\ convs[c].kind = "pdf" => convs[c].pageNum <= convs[c].input.pages
    /\ state' = SetLoading(Caught(state, FailureMessage(convs[c])), FALSE)
    /\ view' = Observed(Notifications(state,
                                      [error |-> FailureMessage(convs[c])])
                        \o Notifications(Caught(state, FailureMessage(convs[c])),
                                         [isLoading |-> FALSE]))
    /\ convs' = [convs EXCEPT ![c].status = "failed"]
    /\ UNCHANGED <<splitVars, toolVars, extVars>>

NoImages == "No images to download. Please convert a PDF first."

ZipFailed == "Failed to create ZIP file. Please try again."

\* downloadAllAsZip with converted images: one entry per image
DownloadAllAsZip ==
    /\ Len(view.convertedImageBlobs) # 0
    /\ view' = [view EXCEPT
                  !.zipNames = [k \in 1..Len(view.convertedImageBlobs) |->
                                   ZipEntryName(k - 1)]]
    /\ UNCHANGED <<state, convs>>
    /\ UNCHANGED <<splitVars, toolVars, extVars>>

\* downloadAllAsZip without converted images: the message, no archive
DownloadAllAsZipRejected ==
    /\ Len(view.convertedImageBlobs) = 0
    /\ view' = [view EXCEPT !.zipError = NoImages]
    /\ UNCHANGED <<state, convs>>
    /\ UNCHANGED <<splitVars, toolVars, extVars>>

\* downloadAllAsZip: generateAsync rejects
DownloadAllAsZipFails ==
    /\ Len(view.convertedImageBlobs) # 0
    /\ view' = [view EXCEPT !.zipError = ZipFailed]
    /\ UNCHANGED <<state, convs>>
    /\ UNCHANGED <<splitVars, toolVars, extVars>>

NextVM ==
    \/ SetSelectedPdf
    \/ SetSelectedImages
    \/ SetActiveTab
    \/ ConvertPdfToImages
    \/ ConvertImagesToPdf
    \/ RenderPage
    \/ ConversionResolves
    \/ ConversionFails

\* the converters never read the split's document: one page count is enough
InitConverters == Init /\ pageCount = 1

SpecVM == InitConverters /\ [][NextVM]_vars

\* the service call of a conversion settles: every promise the service
\* awaits resolves or rejects
Settle == RenderPage \/ ConversionResolves \/ ConversionFails

\* a run in which an input, once selected, stays selected
SelectionKept ==
    /\ state.selectedPdf # NoFile => state'.selectedPdf = state.selectedPdf
    /\ state.selectedImages # <<>> =>
          state'.selectedImages = state.selectedImages

NextLoading ==
    \/ SetSelectedPdf /\ SelectionKept
    \/ SetSelectedImages /\ SelectionKept
    \/ SetActiveTab /\ SelectionKept
    \/ ConvertPdfToImages
    \/ ConvertImagesToPdf
    \/ RenderPage
    \/ ConversionResolves
    \/ ConversionFails

SpecVMFair == InitConverters /\ [][NextLoading]_vars /\ WF_vars(Settle)

\* the converters with the download of the images
NextExport ==
    \/ NextVM
    \/ DownloadAllAsZip
    \/ DownloadAllAsZipRejected
    \/ DownloadAllAsZipFails

SpecExport == InitConverters /\ [][NextExport]_vars

(* ------------------------------ redaction ----------------------------- *)

\* most rectangles drawn on one preview
MaxRects == 2

\* the preview is rendered at scale 1.2 = PreviewScaleNum / PreviewScaleDen
PreviewScaleNum == 6

PreviewScaleDen == 5

\* redactPdf renders the page at scale 1
RedactScale == 1

\* the PDFs offered to the redaction: the size of the first page in points
RedactFiles == {[name |-> "r.pdf", pages |-> 2, width |-> 10, height |-> 10]}

\* offsets of the mouse from the corner of the canvas, in canvas pixels
Coords == {0, 3, 12}

\* the mouse is pressed and released on the diagonal of the canvas
Points == {[x |-> c, y |-> c] : c \in Coords}

Abs(a) == IF a < 0 THEN 0 - a ELSE a

RedactFailed == "Failed to apply redaction: Redaction failed: render failed"

NoRectangle == "Please select a PDF and draw at least one rectangle to redact."

PreviewFailed == "Failed to render PDF preview: render failed"

\* the pages of a PDF before the redaction: each holds its own content
RedactSource(file) ==
    [n \in 1..file.pages |->
        [ width   |-> file.width,
          height  |-> file.height,
          content |-> <<[kind |-> "source", page |-> n]>> ]]

\* handleRedactFile(file): the rectangles start over on a new array, the
\* preview is cleared and loadRedactPreview starts
HandleRedactFile ==
    \E file \in RedactFiles :
        /\ redact' = [redact EXCEPT
                        !.file = file,
                        !.rects = <<>>,
                        !.args = IF redact.argsLive THEN redact.rects
                                 ELSE redact.args,
                        !.argsLive = FALSE,
                        !.preview = "loading"]
        /\ UNCHANGED notRedact

\* loadRedactPreview: the first page is rendered at scale 1.2 on 'redact-canvas'
LoadRedactPreview ==
    /\ redact.preview = "loading"
    /\ redact' = [redact EXCEPT !.preview = "shown"]
    /\ UNCHANGED notRedact

\* loadRedactPreview: the load or the render rejects
LoadRedactPreviewFails ==
    /\ redact.preview = "loading"
    /\ redact' = [redact EXCEPT !.preview = "none", !.error = PreviewFailed]
    /\ UNCHANGED notRedact

\* mousedown on the canvas
MouseDown ==
    \E at \in Points :
        /\ redact' = [redact EXCEPT !.isDrawing = TRUE, !.start = at]
        /\ UNCHANGED notRedact

\* mousemove on the canvas: the preview shows the rectangle being dragged
MouseMove ==
    /\ redact.isDrawing
    /\ \E at \in Points :
          redact' = [redact EXCEPT
                       !.temp = <<[ x |-> redact.start.x,
                                    y |-> redact.start.y,
                                    w |-> at.x - redact.start.x,
                                    h |-> at.y - redact.start.y ]>>]
    /\ UNCHANGED notRedact

\* the rectangle spanned by a drag from start to end
NewRect(start, end) ==
    [ x |-> Min(start.x, end.x),
      y |-> Min(start.y, end.y),
      w |-> Abs(end.x - start.x),
      h |-> Abs(end.y - start.y) ]

\* mouseup keeps a rectangle whose sides are both longer than 5 pixels
RectKept(newRect) == newRect.w > 5 /\ newRect.h > 5

\* mouseup on the canvas
MouseUp ==
    /\ redact.isDrawing
    /\ \E at \in Points :
          LET newRect == NewRect(redact.start, at)
          IN  /\ RectKept(newRect) => Len(redact.rects) < MaxRects
              /\ redact' = [redact EXCEPT
                              !.isDrawing = FALSE,
                              !.temp = <<>>,
                              !.rects = IF RectKept(newRect)
                                        THEN Append(@, newRect) ELSE @]
    /\ UNCHANGED notRedact

\* applyRedaction without a file or without a rectangle: the message, no call
ApplyRedactionRejected ==
    /\ redact.pc # "call"
    /\ redact.file = NoFile \/ Len(redact.rects) = 0
    /\ redact' = [redact EXCEPT !.error = NoRectangle]
    /\ UNCHANGED notRedact

\* applyRedaction: PdfService.redactPdf(this.redactFile, this.redactRects) is
\* called with the array itself
ApplyRedaction ==
    /\ redact.pc # "call"
    /\ redact.file # NoFile
    /\ Len(redact.rects) # 0
    /\ redact' = [redact EXCEPT
                    !.pc = "call",
                    !.callFile = redact.file,
                    !.argsLive = TRUE,
                    !.out = Pending]
    /\ UNCHANGED notRedact

\* the rectangles redactPdf iterates over: the array it was given, as it is
\* when the loop runs
RectsOfCall ==
    IF redact.argsLive THEN redact.rects ELSE redact.args

\* what fillRect(r.x, r.y, r.w, r.h) paints on a canvas of the given size
Clip(r, width, height) ==
    LET x0 == Max(r.x, 0)
        y0 == Max(r.y, 0)
        x1 == Min(r.x + r.w, width)
        y1 == Min(r.y + r.h, height)
    IN  [ x |-> x0, y |-> y0, w |-> Max(x1 - x0, 0), h |-> Max(y1 - y0, 0) ]

\* the canvas of redactPdf: the first page at scale 1 with the black
\* rectangles painted at the coordinates they were given with
RedactedImage(width, height, rects) ==
    [ kind   |-> "image",
      scale  |-> RedactScale,
      width  |-> width * RedactScale,
      height |-> height * RedactScale,
      blocks |-> [k \in 1..Len(rects) |->
                    Clip(rects[k], width * RedactScale, height * RedactScale)] ]

\* firstPage.drawImage(pngImage, ...): the image is added to the content of
\* the page, after what the page already holds
DrawImage(page, image) ==
    [page EXCEPT !.content = Append(@, image)]

\* the document redactPdf saves
Redacted(file, rects) ==
    LET pages == RedactSource(file)
    IN  [pages EXCEPT ![1] = DrawImage(pages[1],
                                RedactedImage(pages[1].width, pages[1].height,
                                              rects))]

\* redactPdf resolves and applyRedaction shows the download link
RedactPdf ==
    /\ redact.pc = "call"
    /\ redact' = [redact EXCEPT
                    !.pc = "done",
                    !.args = RectsOfCall,
                    !.argsLive = FALSE,
                    !.out = Returned(Redacted(redact.callFile, RectsOfCall)),
                    !.links = <<"redacted.pdf">>]
    /\ UNCHANGED notRedact

\* an await of redactPdf rejects
RedactFails ==
    /\ redact.pc = "call"
    /\ redact' = [redact EXCEPT
                    !.pc = "failed",
                    !.args = RectsOfCall,
                    !.argsLive = FALSE,
                    !.out = Thrown,
                    !.error = RedactFailed]
    /\ UNCHANGED notRedact

NextRedact ==
    \/ HandleRedactFile
    \/ LoadRedactPreview
    \/ LoadRedactPreviewFails
    \/ MouseDown
    \/ MouseMove
    \/ MouseUp
    \/ ApplyRedactionRejected
    \/ ApplyRedaction
    \/ RedactPdf
    \/ RedactFails

\* the redaction never reads the split's document: one page count is enough
InitOnePageCount == Init /\ pageCount = 1

SpecRedact == InitOnePageCount /\ [][NextRedact]_vars

(* --------------------------- table extraction ------------------------- *)

\* longest text item enumerated exhaustively over TableAlphabet
MaxItem == 5

TableAlphabet == {"a", " ", "\t"}

\* \s of a regular expression, and what String.prototype.trim strips
IsWhitespace(c) == c \in {" ", "\t", "\n"}

TableItems == UNION {[1..k -> TableAlphabet] : k \in 0..MaxItem}

\* pages of several text items: a page is the list of the strings of its
\* text items
TablePages ==
    { << <<"a", " ", " ", "a">>, <<"a">> >>,
      << <<"a">>, <<"a">> >>,
      << <<"a", "\n", "a", "\t", "a">> >>,
      << <<"a", " ", "a", " ", " ", "a", "\t", "\t", "a">>, <<"a", "\t", "a">> >> }

\* documents of one page, of a page without text before another, and of the
\* items of a page spread over two pages
TableExampleFiles ==
    { <<page>> : page \in TablePages } \cup
    { << <<>>, page >> : page \in TablePages } \cup
    { << <<page[2]>>, <<page[1]>> >> : page \in {e \in TablePages : Len(e) = 2} }

\* the PDFs offered to the extraction: every one-page document with one text
\* item, and the examples
TableFiles == { << <<item>> >> : item \in TableItems } \cup TableExampleFiles

NoTables == "Failed to extract table: Table extraction failed: No tables detected."

ExtractFailed == "Failed to extract table: Table extraction failed: load failed"

\* items.map(item => item.str).join('\n')
RECURSIVE JoinLines(_)
JoinLines(items) ==
    IF items = <<>> THEN <<>>
    ELSE IF Len(items) = 1 THEN items[1]
    ELSE items[1] \o <<"\n">> \o JoinLines(Tail(items))

\* the lines of a page
LinesOf(items) == Split(JoinLines(items), "\n")

\* the length of the run of whitespace s starts with
RECURSIVE WhitespaceRun(_)
WhitespaceRun(s) ==
    IF s # <<>> /\ IsWhitespace(Head(s)) THEN 1 + WhitespaceRun(Tail(s)) ELSE 0

\* line.split(/\s{2,}|\t/): at each position the run of two or more
\* whitespace characters is tried first, then the tab; cur is the piece so far
RECURSIVE SplitCellsFrom(_, _)
SplitCellsFrom(s, cur) ==
    IF s = <<>> THEN <<cur>>
    ELSE IF WhitespaceRun(s) >= 2
         THEN <<cur>> \o SplitCellsFrom(SubSeq(s, WhitespaceRun(s) + 1, Len(s)),
                                         <<>>)
    ELSE IF Head(s) = "\t"
         THEN <<cur>> \o SplitCellsFrom(Tail(s), <<>>)
    ELSE SplitCellsFrom(Tail(s), Append(cur, Head(s)))

SplitCells(line) == SplitCellsFrom(line, <<>>)

RECURSIVE TrimCellStart(_)
TrimCellStart(s) ==
    IF s # <<>> /\ IsWhitespace(Head(s)) THEN TrimCellStart(Tail(s)) ELSE s

RECURSIVE TrimCellEnd(_)
TrimCellEnd(s) ==
    IF s # <<>> /\ IsWhitespace(s[Len(s)])
    THEN TrimCellEnd(SubSeq(s, 1, Len(s) - 1))
    ELSE s

\* cell.trim()
TrimCell(s) == TrimCellEnd(TrimCellStart(s))

NonEmptyCell(cell) == cell # <<>>

\* .map(cell => cell.trim()).filter(cell => cell)
RowOf(line) ==
    LET pieces == SplitCells(line)
    IN  SelectSeq([k \in 1..Len(pieces) |-> TrimCell(pieces[k])], NonEmptyCell)

\* RowKept with a row of one cell kept too
RowKept_OneCell(row) == Len(row) > 0

\* if (row.length > 1) allRows.push(row)
RowKept(row) == Len(row) > 1

\* the rows one page adds to allRows, line after line
RECURSIVE RowsOfLines(_)
RowsOfLines(lines) ==
    IF lines = <<>> THEN <<>>
    ELSE (IF RowKept(RowOf(Head(lines))) THEN <<RowOf(Head(lines))>> ELSE <<>>)
         \o RowsOfLines(Tail(lines))

\* handleTableFile(file); a run follows one document
HandleTableFile ==
    /\ ~table.chosen
    /\ \E file \in TableFiles :
          table' = [table EXCEPT !.file = file, !.chosen = TRUE]
    /\ UNCHANGED notTable

\* extractTable with a file chosen: extractTableFromPdf loads the document
ExtractTable ==
    /\ table.chosen
    /\ table.pc # "call"
    /\ table' = [table EXCEPT !.pc = "call", !.pageNum = 1, !.allRows = <<>>,
                              !.out = Pending]
    /\ UNCHANGED notTable

\* one iteration of the page loop of extractTableFromPdf
ExtractPage ==
    /\ table.pc = "call"
    /\ table.pageNum <= Len(table.file)
    /\ table' = [table EXCEPT
                   !.allRows = @ \o RowsOfLines(LinesOf(table.file[table.pageNum])),
                   !.pageNum = @ + 1]
    /\ UNCHANGED notTable

\* the loop has ended with rows: the sheet is built and both links are shown
ExtractReturn ==
    /\ table.pc = "call"
    /\ table.pageNum > Len(table.file)
    /\ Len(table.allRows) # 0
    /\ table' = [table EXCEPT
                   !.pc = "done",
                   !.out = Returned(table.allRows),
                   !.links = <<"extracted-table.csv", "extracted-table.xlsx">>]
    /\ UNCHANGED notTable

\* the loop has ended without a row: 'No tables detected.' is thrown, wrapped
\* and shown
ExtractNoTables ==
    /\ table.pc = "call"
    /\ table.pageNum > Len(table.file)
    /\ Len(table.allRows) = 0
    /\ table' = [table EXCEPT !.pc = "failed", !.out = Thrown,
                              !.error = NoTables]
    /\ UNCHANGED notTable

\* an await of extractTableFromPdf rejects: the load, a page, its text
ExtractFails ==
    /\ table.pc = "call"
    /\ table.pageNum <= Len(table.file) \/ table.pageNum = 1
    /\ table' = [table EXCEPT !.pc = "failed", !.out = Thrown,
                              !.error = ExtractFailed]
    /\ UNCHANGED notTable

NextTable ==
    \/ HandleTableFile
    \/ ExtractTable
    \/ ExtractPage
    \/ ExtractReturn
    \/ ExtractNoTables
    \/ ExtractFails

SpecTable == InitOnePageCount /\ [][NextTable]_vars

(* ------------------------- rasterizing page loops --------------------- *)

\* most pages of a document given to a rasterizing function
MaxRasterPages == 3

\* the functions that render every page on a canvas of its own
Rasterizers == {"pdfFileToImages", "pdfFileToJpg", "compressPdf",
                "_splitManually", "pdfToPptx"}

\* the functions whose iteration frees its canvas in a finally block
FreesInFinally(fn) == fn = "pdfFileToImages"

\* a rasterizing function is called and has loaded the document
RasterCall ==
    /\ raster.pc \in {"idle", "done", "failed"}
    /\ \E fn \in Rasterizers, n \in 1..MaxRasterPages :
          raster' = [ fn |-> fn, pc |-> "loop", numPages |-> n, pageNum |-> 1,
                      canvases |-> <<>>, pushed |-> 0 ]
    /\ UNCHANGED notRaster

\* an iteration starts: the page is fetched, its canvas is created and sized
CreateCanvas ==
    /\ raster.pc = "loop"
    /\ raster.pageNum <= raster.numPages
    /\ raster' = [raster EXCEPT
                    !.pc = "render",
                    !.canvases = Append(@, [page |-> raster.pageNum,
                                            sized |-> TRUE])]
    /\ UNCHANGED notRaster

\* canvas.width = 0; canvas.height = 0 on the canvas of the iteration
Freed(canvases) ==
    [canvases EXCEPT ![Len(canvases)].sized = FALSE]

\* the render and the encoding of the page resolve: the image is kept, the
\* canvas is freed and the iteration ends
RenderResolves ==
    /\ raster.pc = "render"
    /\ raster' = [raster EXCEPT
                    !.pc = "loop",
                    !.canvases = Freed(@),
                    !.pushed = @ + 1,
                    !.pageNum = @ + 1]
    /\ UNCHANGED notRaster

\* the render rejects: the iteration and the function end by the throw; the
\* canvas is freed where the iteration has a finally block
RenderRejects ==
    /\ raster.pc = "render"
    /\ raster' = [raster EXCEPT
                    !.pc = "failed",
                    !.canvases = IF FreesInFinally(raster.fn) THEN Freed(@)
                                 ELSE @]
    /\ UNCHANGED notRaster

\* getPage rejects before the canvas of the iteration exists
GetPageRejects ==
    /\ raster.pc = "loop"
    /\ raster.pageNum <= raster.numPages
    /\ raster' = [raster EXCEPT !.pc = "failed"]
    /\ UNCHANGED notRaster

\* the loop has ended and the function returns
RasterReturn ==
    /\ raster.pc = "loop"
    /\ raster.pageNum > raster.numPages
    /\ raster' = [raster EXCEPT !.pc = "done"]
    /\ UNCHANGED notRaster

NextRaster ==
    \/ RasterCall
    \/ CreateCanvas
    \/ RenderResolves
    \/ RenderRejects
    \/ GetPageRejects
    \/ RasterReturn

SpecRaster == InitOnePageCount /\ [][NextRaster]_vars

(* ------------------------- the rasterizing split ---------------------- *)

\* `page_${pageNum}.pdf`
ManualEachName(pageNum) ==
    <<"p", "a", "g", "e", "_">> \o NumberToString(pageNum)
        \o <<".", "p", "d", "f">>

\* `pages_${start}-${end}.pdf`
ManualChunkName(start, end) ==
    <<"p", "a", "g", "e", "s", "_">> \o NumberToString(start) \o <<"-">>
        \o NumberToString(end) \o <<".", "p", "d", "f">>

\* ManualEnd without the - 1
ManualEnd_OneMore(start, perChunk, numPages) ==
    Min(start + perChunk, numPages)

\* Math.min(start + pagesPerChunk - 1, pdf.numPages)
ManualEnd(start, perChunk, numPages) ==
    Min(start + perChunk - 1, numPages)

\* for (let pageNum = start; pageNum <= end; pageNum++): the page numbers
\* rendered into one output
PageNumbers(start, end) == [k \in 1..(end - start + 1) |-> start + k - 1]

\* splitPdf without PDFLib: _splitManually is called with the arguments of
\* the split that has returned, up to the first iteration of its branch
SplitManually ==
    /\ pc = "done"
    /\ result.kind = "value"
    /\ manual.pc = "idle"
    /\ manual' = [ pc |-> CASE method = "each" -> "each"
                            [] method = "pages" -> "pages"
                            [] method = "range" /\ ranges # <<>> -> "range"
                            [] OTHER -> "return",
                   at |-> IF method = "range" THEN 0 ELSE 1,
                   pagesPerChunk |-> IF method = "pages"
                                     THEN PagesPerChunk(ranges) ELSE 0,
                   rangeList |-> IF method = "range" /\ ranges # <<>>
                                 THEN parseRanges(ranges, pageCount) ELSE <<>>,
                   splitPdfs |-> <<>>,
                   out |-> Pending ]
    /\ UNCHANGED notManual

\* one iteration of the loop of method 'each'
ManualEachIteration ==
    /\ manual.pc = "each"
    /\ manual.at <= pageCount
    /\ manual' = [manual EXCEPT
                    !.splitPdfs = Append(@, [name |-> ManualEachName(manual.at),
                                             pages |-> <<manual.at>>]),
                    !.at = @ + 1]
    /\ UNCHANGED notManual

\* one iteration of the outer loop of method 'pages'
ManualPagesIteration ==
    /\ manual.pc = "pages"
    /\ manual.at <= pageCount
    /\ LET end == ManualEnd(manual.at, manual.pagesPerChunk, pageCount)
       IN  manual' = [manual EXCEPT
                        !.splitPdfs = Append(@,
                            [name |-> ManualChunkName(manual.at, end),
                             pages |-> PageNumbers(manual.at, end)]),
                        !.at = @ + manual.pagesPerChunk]
    /\ UNCHANGED notManual

\* one iteration of the outer loop of method 'range'
ManualRangeIteration ==
    /\ manual.pc = "range"
    /\ manual.at < Len(manual.rangeList)
    /\ LET r == manual.rangeList[manual.at + 1]
       IN  manual' = [manual EXCEPT
                        !.splitPdfs = Append(@,
                            [name |-> ManualChunkName(r.start, r.end),
                             pages |-> PageNumbers(r.start, r.end)]),
                        !.at = @ + 1]
    /\ UNCHANGED notManual

\* the loop of the branch taken has ended (or no branch was taken)
ManualLoopEnded ==
    \/ manual.pc \in {"each", "pages"} /\ manual.at > pageCount
    \/ manual.pc = "range" /\ manual.at >= Len(manual.rangeList)
    \/ manual.pc = "return"

\* return splitPdfs
ManualReturn ==
    /\ ManualLoopEnded
    /\ manual' = [manual EXCEPT !.pc = "done",
                                !.out = Returned(manual.splitPdfs)]
    /\ UNCHANGED notManual

\* a getPage or a render of the iteration about to run rejects
ManualFails ==
    /\ manual.pc \in {"each", "pages", "range"}
    /\ ~ManualLoopEnded
    /\ manual' = [manual EXCEPT !.pc = "failed", !.out = Thrown]
    /\ UNCHANGED notManual

\* the split with PDFLib, then the split without it on the same arguments
NextBoth ==
    \/ Next
    \/ SplitManually
    \/ ManualEachIteration
    \/ ManualPagesIteration
    \/ ManualRangeIteration
    \/ ManualReturn
    \/ ManualFails

SpecBoth == Init /\ [][NextBoth]_vars

(* ------------------------------- setState ----------------------------- *)

\* Object.entries(updates) of each setter: the keys in the order the object
\* literal names them
SetSelectedPdfEntries(file) ==
    << <<"selectedPdf", file>>, <<"resultBlobs", <<>> >>, <<"error", NoError>> >>

SetSelectedImagesEntries(imgs) ==
    << <<"selectedImages", imgs>>, <<"resultBlobs", <<>> >>,
       <<"error", NoError>> >>

SetLoadingEntries(isLoading) == << <<"isLoading", isLoading>> >>

SetResultBlobsEntries(blobs) == << <<"resultBlobs", blobs>> >>

SetActiveTabEntries(tab) ==
    << <<"activeTab", tab>>, <<"selectedPdf", NoFile>>,
       <<"selectedImages", <<>> >>, <<"resultBlobs", <<>> >>,
       <<"error", NoError>> >>

SetErrorEntries(msg) == << <<"error", msg>> >>

ClearErrorEntries == << <<"error", NoError>> >>

\* the results a converter hands to setResultBlobs
ResultLists ==
    { <<[of |-> "a.pdf", page |-> 1, type |-> "image/png"]>>,
      <<[of |-> <<"i.png">>, page |-> 0, type |-> "application/pdf"]>> }

\* the updates the setters of ViewModel hand to setState
SetterEntries ==
    {SetSelectedPdfEntries(file) : file \in PdfFiles}
        \cup {SetSelectedImagesEntries(imgs) : imgs \in ImageLists}
        \cup {SetLoadingEntries(isLoading) : isLoading \in BOOLEAN}
        \cup {SetResultBlobsEntries(blobs) : blobs \in ResultLists}
        \cup {SetActiveTabEntries(tab) : tab \in Tabs}
        \cup {SetErrorEntries(msg) : msg \in {PdfToImagesFailed,
                                               ImagesToPdfFailed}}
        \cup {ClearErrorEntries}

\* a setter calls setState(updates)
SetterCalled ==
    /\ setter.pc \in {"idle", "done"}
    /\ \E entries \in SetterEntries :
          setter' = [setter EXCEPT !.pc = "write",
                                   !.before = setter.state,
                                   !.entries = entries,
                                   !.at = 1,
                                   !.changedProperties = <<>>,
                                   !.calls = <<>>]
    /\ UNCHANGED notSetter

\* Written with the observer notified as soon as the key is written
Written_Notifying(p, key, value) ==
    [p EXCEPT !.state = [@ EXCEPT ![key] = value],
              !.changedProperties = Append(@, key),
              !.calls = Append(@, [key  |-> key,
                                   seen |-> [p.state EXCEPT ![key] = value]])]

\* the body of the if: this.state[key] = value; changedProperties.push(key)
Written(p, key, value) ==
    [p EXCEPT !.state = [@ EXCEPT ![key] = value],
              !.changedProperties = Append(@, key)]

\* one iteration of the for loop over the entries
WriteEntry ==
    /\ setter.pc = "write"
    /\ setter.at <= Len(setter.entries)
    /\ LET key == setter.entries[setter.at][1]
           value == setter.entries[setter.at][2]
           p == [setter EXCEPT !.at = @ + 1]
       IN  setter' = IF Differs(key, setter.state[key], value)
                     THEN Written(p, key, value)
                     ELSE p
    /\ UNCHANGED notSetter

\* the for loop has ended and changedProperties.length > 0
WritingEnded ==
    /\ setter.pc = "write"
    /\ setter.at > Len(setter.entries)
    /\ Len(setter.changedProperties) > 0
    /\ setter' = [setter EXCEPT !.pc = "notify", !.at = 1]
    /\ UNCHANGED notSetter

\* the for loop has ended and changedProperties is empty: setState returns
NothingChanged ==
    /\ setter.pc = "write"
    /\ setter.at > Len(setter.entries)
    /\ Len(setter.changedProperties) = 0
    /\ setter' = [setter EXCEPT !.pc = "done"]
    /\ UNCHANGED notSetter

\* one iteration of changedProperties.forEach: notify(prop) calls the
\* observer App has subscribed with this.state and prop
Notify ==
    /\ setter.pc = "notify"
    /\ setter.at <= Len(setter.changedProperties)
    /\ setter' = [setter EXCEPT
                    !.calls = Append(@, [key  |-> setter.changedProperties[setter.at],
                                         seen |-> setter.state]),
                    !.at = @ + 1]
    /\ UNCHANGED notSetter

\* forEach has ended: setState returns
Notified ==
    /\ setter.pc = "notify"
    /\ setter.at > Len(setter.changedProperties)
    /\ setter' = [setter EXCEPT !.pc = "done"]
    /\ UNCHANGED notSetter

NextSetState ==
    \/ SetterCalled
    \/ WriteEntry
    \/ WritingEnded
    \/ NothingChanged
    \/ Notify
    \/ Notified

SpecSetState == InitOnePageCount /\ [][NextSetState]_vars

(* --------------------------- the whole program ------------------------ *)

ToolsIdle == tpc = "idle"

ConvertersIdle == InitVM

\* the page tools and the converters never read the split's document: they
\* run beside one of its page counts
SplitIdle == pc = "idle" /\ pageCount = 1

\* the split, the page tools and the converters share no state: a run
\* exercises one of them
NextAll ==
    \/ ToolsIdle /\ ConvertersIdle /\ Next
    \/ SplitIdle /\ ConvertersIdle /\ NextTools
    \/ SplitIdle /\ ToolsIdle /\ NextVM

SpecAll == Init /\ [][NextAll]_vars

(* ----------------------- shared by the properties ---------------------- *)

\* _parseRanges has returned rangeList for the expression in ranges
Parsed == method = "range" /\ ranges # <<>> /\ pc \in {"range", "done"}

\* the split has run to its end and handed its outputs back
Done(m) == pc = "done" /\ method = m

Tokens(expr) == Split(expr, ",")

\* the concatenation of a sequence of sequences
RECURSIVE Flatten(_)
Flatten(ss) == IF ss = <<>> THEN <<>> ELSE Head(ss) \o Flatten(Tail(ss))

\* the 0-based page indices from..to, ascending
Run(from, to) == [k \in 1..(to - from + 1) |-> from + k - 1]

\* the decimal numeral of a positive integer below 100
Numeral(n) ==
    IF n < 10 THEN <<DigitChar(n)>>
    ELSE <<DigitChar(n \div 10), DigitChar(n % 10)>>

Example == <<"1", "-", "3", ",", "5", ",", "7", "-", "9">>

(* ------------------------------- C1 ------------------------------------ *)

\* C1: every range returned by _parseRanges has integer endpoints with
\* 1 <= start <= end <= maxPage, whatever the expression and the page count
C1_RangesWithinBounds ==
    \A k \in 1..Len(rangeList) :
        /\ rangeList[k].start \in Int
        /\ rangeList[k].end \in Int
        /\ 1 <= rangeList[k].start
        /\ rangeList[k].start <= rangeList[k].end
        /\ rangeList[k].end <= pageCount

\* a parse that returned a proper interval ending at the last page
C1_Witness ==
    /\ Parsed
    /\ \E k \in 1..Len(rangeList) :
         rangeList[k].start < rangeList[k].end /\ rangeList[k].end = pageCount

(* ------------------------------- C2 ------------------------------------ *)

\* C2: _parseRanges returns the ranges of the accepted tokens in the order of
\* the tokens, unsorted, unmerged and with duplicates: the result for
\* "a,b" is the result for a followed by the result for b, one token gives
\* one range at most, and "1-3,5,7-9" with 10 pages gives (1,3),(5,5),(7,9)
C2_TokenOrderPreserved ==
    Parsed =>
        /\ \A k \in 1..Len(ranges) :
              ranges[k] = "," =>
                  rangeList = parseRanges(SubSeq(ranges, 1, k - 1), pageCount)
                              \o parseRanges(SubSeq(ranges, k + 1, Len(ranges)),
                                             pageCount)
        /\ ~Includes(ranges, ",") => Len(rangeList) <= 1
        /\ (ranges = Example /\ pageCount = 10) =>
              rangeList = << [start |-> 1, end |-> 3], [start |-> 5, end |-> 5],
                             [start |-> 7, end |-> 9] >>

\* a parse whose result is neither sorted nor merged nor deduplicated
C2_Witness ==
    /\ Parsed
    /\ Len(rangeList) >= 3
    /\ rangeList[1].start > rangeList[3].start
    /\ rangeList[2].start <= rangeList[1].end

(* ------------------------------- C3 ------------------------------------ *)

\* an endpoint the code reads from the token lies outside 1..maxPage
OutOfBounds(x, maxPage) == ~x.nan /\ (x.val < 1 \/ x.val > maxPage)

TokenOutOfBounds(token, maxPage) ==
    LET trimmed == Trim(token)
    IN  IF Includes(trimmed, "-")
        THEN \/ OutOfBounds(PartStart(trimmed), maxPage)
             \/ OutOfBounds(PartEnd(trimmed), maxPage)
        ELSE OutOfBounds(ParseInt(trimmed, 0), maxPage)

HasOutOfBoundsToken ==
    \E k \in 1..Len(Tokens(ranges)) :
        TokenOutOfBounds(Tokens(ranges)[k], pageCount)

\* C3 as stated: an expression with an endpoint outside 1..maxPage makes the
\* parse fail (with OutOfBounds)
C3_OutOfBoundsFails ==
    (Parsed /\ HasOutOfBoundsToken) => error # NoError

\* C3 amended: a token with an endpoint outside 1..maxPage is dropped without
\* any failure; the result is that of the expression without these tokens,
\* and "0-2" with 10 pages gives no range at all
C3_OutOfBoundsDropped ==
    Parsed =>
        LET InBounds(token) == ~TokenOutOfBounds(token, pageCount)
        IN  /\ error = NoError
            /\ rangeList = ParseParts(SelectSeq(Tokens(ranges), InBounds),
                                      pageCount, <<>>)
            /\ (ranges = <<"0", "-", "2">> /\ pageCount = 10) => rangeList = <<>>

\* "0-2,3,11" on 10 pages: a token out of bounds on each side is dropped,
\* the one within is kept and the split ends without a failure
C3_Witness ==
    /\ Parsed
    /\ pc = "done"
    /\ pageCount = 10
    /\ ranges = <<"0", "-", "2", ",", "3", ",", "1", "1">>
    /\ rangeList = <<[start |-> 3, end |-> 3]>>
    /\ error = NoError

(* ------------------------------- C4 ------------------------------------ *)

IsInteger(s) == s # <<>> /\ \A k \in 1..Len(s) : DigitVal(s[k]) < 10

CountOf(s, c) == Cardinality({k \in 1..Len(s) : s[k] = c})

\* the range of a token of the grammar: N, or A-B with A <= B
GrammarToken(token, maxPage) ==
    LET t == Trim(token)
        a == Trim(Split(t, "-")[1])
        b == Trim(Split(t, "-")[2])
    IN  IF IsInteger(t)
        THEN IF 1 <= DigitsValue(t, 10, 0) /\ DigitsValue(t, 10, 0) <= maxPage
             THEN <<[start |-> DigitsValue(t, 10, 0), end |-> DigitsValue(t, 10, 0)]>>
             ELSE <<>>
        ELSE IF /\ CountOf(t, "-") = 1
                /\ IsInteger(a)
                /\ IsInteger(b)
                /\ 1 <= DigitsValue(a, 10, 0)
                /\ DigitsValue(a, 10, 0) <= DigitsValue(b, 10, 0)
                /\ DigitsValue(b, 10, 0) <= maxPage
             THEN <<[start |-> DigitsValue(a, 10, 0), end |-> DigitsValue(b, 10, 0)]>>
             ELSE <<>>

GrammarRanges(expr, maxPage) ==
    Flatten([k \in 1..Len(Tokens(expr)) |-> GrammarToken(Tokens(expr)[k], maxPage)])

\* C4: a token yields a range only if it is a bare integer N or a pair A-B
\* with A <= B; every other token ("3-1", "1-2-3", "2x", "-3", "") yields
\* none, and the well-formed tokens of the expression still yield theirs
C4_OnlyGrammarTokens ==
    Parsed => rangeList = GrammarRanges(ranges, pageCount)

(* ------------------------------- C5 ------------------------------------ *)

\* C5: a 'range' split whose expression yields zero ranges fails and does not
\* proceed: it never completes successfully with an empty list of outputs
C5_EmptyRangeSetFails ==
    (Done("range") /\ rangeList = <<>>) => (error # NoError /\ ~resultsShown)

(* ------------------------------- C6 ------------------------------------ *)

\* C6: method 'each' yields exactly pageCount outputs, the i-th (0-based)
\* holding the single source page i: the outputs cover 0..pageCount-1 with no
\* gap and no overlap
C6_EachOnePagePerOutput ==
    /\ pc = "each" =>
          /\ Len(splitPdfs) = i
          /\ \A k \in 1..Len(splitPdfs) : splitPdfs[k].pages = <<k - 1>>
    /\ Done("each") =>
          /\ Len(splitPdfs) = pageCount
          /\ \A k \in 1..pageCount : splitPdfs[k].pages = <<k - 1>>
          /\ Flatten([k \in 1..Len(splitPdfs) |-> splitPdfs[k].pages])
                = Run(0, pageCount - 1)

\* a finished per-page split of the 10-page document
C6_Witness == Done("each") /\ pageCount = 10 /\ Len(splitPdfs) = 10

(* ------------------------------- C7 ------------------------------------ *)

\* the chunk size asked for, as the service reads it
Requested == ParseInt(ranges, 10)

\* C7: for a chunk size >= 1, method 'pages' partitions 0..pageCount-1 into
\* contiguous ascending runs of exactly size pages, except possibly the last,
\* which has pageCount mod size pages (size when the remainder is 0)
C7_ChunksPartitionPages ==
    (Done("pages") /\ ~Requested.nan /\ Requested.val >= 1) =>
        LET size == Requested.val
            n    == Len(splitPdfs)
        IN  /\ n = (pageCount + size - 1) \div size
            /\ Flatten([k \in 1..n |-> splitPdfs[k].pages]) = Run(0, pageCount - 1)
            /\ \A k \in 1..(n - 1) :
                  splitPdfs[k].pages = Run((k - 1) * size, k * size - 1)
            /\ Len(splitPdfs[n].pages)
                  = IF pageCount % size = 0 THEN size ELSE pageCount % size

\* a finished chunked split whose last chunk is shorter than the others
C7_Witness ==
    /\ Done("pages")
    /\ ~Requested.nan
    /\ Requested.val = 3
    /\ pageCount = 10
    /\ Len(splitPdfs) = 4
    /\ Len(splitPdfs[4].pages) = 1

(* ------------------------------- C8 ------------------------------------ *)

ChunkSizeRead == method = "pages" /\ pc \in {"pages", "done"}

\* C8 as stated: every requested chunk size below 1, zero and the negative
\* ones, is replaced by the default 5 before the groups are computed
C8_BelowOneBecomesFive ==
    (ChunkSizeRead /\ ~Requested.nan /\ Requested.val < 1) => pagesPerChunk = 5

\* C8 amended: in PdfService a requested size of zero (or none, or one that
\* is not a number) is replaced by the default 5 and a negative one by 1, and
\* the groups are chunks of that size; App.splitPdf refuses a size below 1
\* with a message and does not call the service
C8_ZeroBecomesFiveNegativeOne ==
    /\ ChunkSizeRead =>
          /\ (Requested.nan \/ Requested.val = 0) => pagesPerChunk = 5
          /\ (~Requested.nan /\ Requested.val < 0) => pagesPerChunk = 1
          /\ (~Requested.nan /\ Requested.val >= 1) => pagesPerChunk = Requested.val
          /\ caller = "app" => (~Requested.nan /\ Requested.val >= 1)
    /\ Done("pages") =>
          /\ Len(splitPdfs) = (pageCount + pagesPerChunk - 1) \div pagesPerChunk
          /\ \A k \in 1..(Len(splitPdfs) - 1) :
                Len(splitPdfs[k].pages) = pagesPerChunk
    /\ error = EnterPages => (caller = "app" /\ splitPdfs = <<>> /\ ~resultsShown)

\* a split asked for chunks of 0 pages that came out in two chunks of five
C8_Witness ==
    /\ Done("pages")
    /\ ~Requested.nan
    /\ Requested.val = 0
    /\ pageCount = 10
    /\ Len(splitPdfs) = 2
    /\ Len(splitPdfs[1].pages) = 5

(* ------------------------------- C9 ------------------------------------ *)

\* C9: method 'range' yields one output per parsed range, in range order,
\* holding exactly the pages start-1..end-1 in increasing order; overlapping
\* ranges each get their complete output and a page named by no range is in
\* no output
C9_OneOutputPerRange ==
    /\ pc = "range" => Len(splitPdfs) = i
    /\ Done("range") => Len(splitPdfs) = Len(rangeList)
    /\ method = "range" =>
          /\ \A k \in 1..Len(splitPdfs) :
                splitPdfs[k].pages = Run(rangeList[k].start - 1, rangeList[k].end - 1)
          /\ \A k \in 1..Len(splitPdfs) : \A j \in 1..Len(splitPdfs[k].pages) :
                /\ j > 1 => splitPdfs[k].pages[j - 1] < splitPdfs[k].pages[j]
                /\ \E r \in 1..Len(rangeList) :
                      /\ rangeList[r].start <= splitPdfs[k].pages[j] + 1
                      /\ splitPdfs[k].pages[j] + 1 <= rangeList[r].end

\* a finished range split with overlapping ranges and a page in no output
C9_Witness ==
    /\ Done("range")
    /\ Len(splitPdfs) = 3
    /\ splitPdfs[1].pages = <<1>>
    /\ splitPdfs[2].pages = <<1, 2>>
    /\ splitPdfs[3].pages = <<0>>
    /\ pageCount = 4

(* ------------------------------- C10 ----------------------------------- *)

First(pages) == pages[1] + 1

Last(pages) == pages[Len(pages)] + 1

\* C10: an output of method 'each' is named page_{n}.pdf, n the 1-based
\* number of its page; an output of 'pages' or 'range' is named
\* pages_{start}-{end}.pdf, start and end the 1-based first and last source
\* page it holds, for a shorter final chunk too
C10_OutputNames ==
    /\ \A k \in 1..Len(splitPdfs) :
          /\ splitPdfs[k].pages # <<>>
          /\ splitPdfs[k].name =
                IF method = "each"
                THEN <<"p", "a", "g", "e", "_">>
                        \o Numeral(First(splitPdfs[k].pages))
                        \o <<".", "p", "d", "f">>
                ELSE <<"p", "a", "g", "e", "s", "_">>
                        \o Numeral(First(splitPdfs[k].pages)) \o <<"-">>
                        \o Numeral(Last(splitPdfs[k].pages))
                        \o <<".", "p", "d", "f">>
    /\ resultsShown => downloads = Names(splitPdfs)

\* the links shown for chunks of 3 of the 10-page document end with
\* pages_10-10.pdf
C10_Witness ==
    /\ Done("pages")
    /\ resultsShown
    /\ Len(downloads) = 4
    /\ downloads[4] = <<"p", "a", "g", "e", "s", "_", "1", "0", "-", "1", "0",
                        ".", "p", "d", "f">>

(* ------------------------------- C11 ----------------------------------- *)

ToolDone(t) == tool = t /\ tpc = "done"

\* C11: the merged document is the concatenation, in the order the sources
\* were supplied, of each source's pages in ascending order, nothing
\* reordered or removed (a source supplied twice gives its pages twice); its
\* page count is the sum of the page counts of the sources
C11_MergeConcatenates ==
    /\ (tool = "merge" /\ tpc \in {"call", "done"}) =>
          work = Flatten(SubSeq(files, 1, fileIndex))
    /\ ToolDone("merge") =>
          /\ out = Returned(Flatten(files))
          /\ \A f \in 1..Len(files) : \A n \in 1..Len(files[f]) :
                \E m \in 1..Len(out.value) :
                    /\ out.value[m] = files[f][n]
                    /\ n < Len(files[f]) => out.value[m + 1] = files[f][n + 1]
          /\ Len(files) = 2 => Len(out.value) = Len(files[1]) + Len(files[2])

\* a 2-page document merged with itself: 4 pages, p1 p2 p1 p2
C11_Witness ==
    /\ ToolDone("merge")
    /\ Len(files) = 2
    /\ files[1] = files[2]
    /\ Len(files[1]) = 2
    /\ Len(out.value) = 4
    /\ out.value[3] = out.value[1]

(* ------------------------------- C12 ----------------------------------- *)

\* C12: rotating a page by angle sets its rotation to (current + angle) mod
\* 360, one of 0, 90, 180, 270, whatever the rotation it had
C12_RotateAdditive ==
    ToolDone("rotate") =>
        \A n \in 1..Len(files[1]) :
            /\ out.value[n].rot = (files[1][n].rot + args.angle.val) % 360
            /\ out.value[n].rot \in {0, 90, 180, 270}

(* ------------------------------- C13 ----------------------------------- *)

NotRightAngle == ~args.angle.nan /\ args.angle.val % 90 # 0

Degenerate(n) ==
    \/ (args.left + args.right) * Mm >= files[1][n].w
    \/ (args.top + args.bottom) * Mm >= files[1][n].h

\* C14: a crop whose box has width or height <= 0 fails and produces no
\* cropped document
C14_DegenerateCropFails ==
    (tool = "crop" /\ tpc \in {"done", "failed"}
        /\ \E n \in 1..Len(files[1]) : Cropped(n - 1, args.allPages) /\ Degenerate(n)) =>
        /\ tpc = "failed"
        /\ out = Thrown
        /\ links = <<>>

(* ------------------------------- C15 ----------------------------------- *)

\* C15: after a crop that produced an output, whatever the margins (negative
\* ones too), every page's width and height are positive and no larger than
\* before the crop
C15_CropShrinksToPositive ==
    ToolDone("crop") =>
        \A n \in 1..Len(out.value) :
            /\ 0 < out.value[n].w
            /\ out.value[n].w <= files[1][n].w
            /\ 0 < out.value[n].h
            /\ out.value[n].h <= files[1][n].h

(* ------------------------------- C16 ----------------------------------- *)

ZeroMargins ==
    args.top = 0 /\ args.right = 0 /\ args.bottom = 0 /\ args.left = 0

\* C16: a crop with top = right = bottom = left = 0 leaves the width and the
\* height of every page as they were
C16_ZeroCropKeepsSize ==
    (ToolDone("crop") /\ ZeroMargins) =>
        /\ Len(out.value) = Len(files[1])
        /\ \A n \in 1..Len(out.value) :
              /\ out.value[n].w = files[1][n].w
              /\ out.value[n].h = files[1][n].h

\* a finished crop of all the pages of a 3-page document with margins 0
C16_Witness ==
    /\ ToolDone("crop")
    /\ ZeroMargins
    /\ args.allPages
    /\ Len(out.value) = 3

(* ------------------------------- C17 ----------------------------------- *)

Box(page) == <<page.x, page.y, page.w, page.h>>

\* C17: with allPages = false only the box of the first page changes, every
\* page of index >= 1 keeps its box; the number and the order of the pages
\* are the same in both modes
C17_CropFirstPageOnly ==
    ToolDone("crop") =>
        /\ Len(out.value) = Len(files[1])
        /\ \A n \in 1..Len(out.value) :
              /\ out.value[n].src = files[1][n].src
              /\ (~args.allPages /\ n > 1) => out.value[n] = files[1][n]

\* a crop of the first page only of a 3-page document, the first box changed
C17_Witness ==
    /\ ToolDone("crop")
    /\ ~args.allPages
    /\ Len(out.value) = 3
    /\ Box(out.value[1]) # Box(files[1][1])
    /\ args.left = 20

(* ------------------------------- C18 ----------------------------------- *)

\* C18: one number is stamped on every page, and the number on the i-th page
\* (0-based) is startNumber + i for every start number supplied, 0 and the
\* negative ones included
C18_NumbersFromStart ==
    (ToolDone("pagenum") /\ ~ParseInt(args.field, 0).nan) =>
        \A n \in 1..Len(out.value) :
            out.value[n].stamps =
                <<NumberToString(ParseInt(args.field, 0).val + (n - 1))>>


(* ----------------------------- C20: failure --------------------------- *)

\* this step belongs to call c of a converter and is not its resolution:
\* the call starts, renders a page, or fails
CallStep(c) ==
    \/ c > Len(convs)
    \/ /\ c <= Len(convs)
       /\ convs'[c] # convs[c]
       /\ convs'[c].status # "resolved"

\* this step is the failure of call c
Failing(c) ==
    /\ c <= Len(convs)
    /\ convs[c].status = "running"
    /\ convs'[c].status = "failed"

\* C20: a conversion that fails leaves the result of the earlier conversion
\* untouched: no step of a failing call of convertPdfToImages or
\* convertImagesToPdf, from its start to its failure, changes resultBlobs, and
\* its failure leaves error holding the failure message and isLoading false.
C20_FailedConversionKeepsResults ==
    [][\A c \in 1..Len(convs') :
          /\ CallStep(c) => state'.resultBlobs = state.resultBlobs
          /\ Failing(c) => /\ state'.error = FailureMessage(convs[c])
                           /\ state'.isLoading = FALSE]_vars

\* a conversion resolved and its result is shown; a later conversion of a
\* two-page PDF failed at its second page
C20_Witness ==
    /\ Len(convs) = 2
    /\ convs[1].status = "resolved"
    /\ convs[2].status = "failed"
    /\ convs[2].kind = "pdf"
    /\ Len(convs[2].imageBlobs) = 1
    /\ state.resultBlobs = ServiceValue(convs[1])
    /\ state.resultBlobs # <<>>
    /\ state.error = PdfToImagesFailed
    /\ state.isLoading = FALSE

(* ------------------------- C19: no partial output --------------------- *)

\* the loop of the split has run to its end
SplitComplete ==
    /\ method \in {"each", "pages"} => i >= pageCount
    /\ method = "range" => i >= Len(rangeList)

\* the loop of the merge or of the compression has run to its end
ToolComplete ==
    /\ tool = "merge" => fileIndex = Len(files)
    /\ tool = "compress" => fileIndex = Len(files[1])

\* the image export of call c stopped before its last page
PartialExport(c) ==
    /\ convs[c].kind = "pdf"
    /\ convs[c].status = "failed"
    /\ convs[c].imageBlobs # <<>>

\* C19: a failure at page k of a split, a merge, a compression or an image
\* export fails the whole operation with one wrapped error, and the caller
\* receives none of the outputs built for the pages before k: a failed
\* operation hands over an error and no list, shows its one message and no
\* download, and a list is only ever handed over by an operation whose loop
\* ran to its end.
C19_NoPartialOutputs ==
    /\ pc = "failed" =>
          /\ result = Thrown
          /\ caller = "app" => /\ error = SplitFailed
                               /\ downloads = <<>>
                               /\ ~resultsShown
    /\ result.kind = "value" =>
          /\ pc = "done"
          /\ SplitComplete
          /\ result.value = splitPdfs
    /\ tpc = "failed" =>
          /\ out = Thrown
          /\ links = <<>>
          /\ toolError # NoError
    /\ out.kind = "value" => tpc = "done" /\ ToolComplete
    /\ \A c \in 1..Len(convs) :
          /\ PartialExport(c) => state.resultBlobs # convs[c].imageBlobs
          /\ convs[c].status = "resolved" /\ convs[c].kind = "pdf" =>
                Len(convs[c].imageBlobs) = convs[c].input.pages

\* a split by ranges failed at its second range, after the output of the
\* first range was built: the caller holds an error and sees no download
C19_Witness ==
    /\ pc = "failed"
    /\ method = "range"
    /\ caller = "app"
    /\ Len(rangeList) >= 2
    /\ Len(splitPdfs) = 1
    /\ result = Thrown
    /\ downloads = <<>>

(* --------------------------- C21, C22: redaction ---------------------- *)

\* the region of the page under a rectangle of a canvas rendered at scale
\* num / den, in 1/PreviewScaleNum of a point
OnPage(rect, num, den) ==
    LET unitsPerPixel == (den * PreviewScaleNum) \div num
    IN  [ x |-> rect.x * unitsPerPixel, y |-> rect.y * unitsPerPixel,
          w |-> rect.w * unitsPerPixel, h |-> rect.h * unitsPerPixel ]

\* the size of the preview canvas of a page
PreviewWidth(page) == (page.width * PreviewScaleNum) \div PreviewScaleDen

PreviewHeight(page) == (page.height * PreviewScaleNum) \div PreviewScaleDen

RedactDone == redact.pc = "done"

\* the image redactPdf drew on the first page
ImageOf(doc) == doc[1].content[Len(doc[1].content)]

\* C21: every block baked into the output covers the same region of the
\* page as its rectangle covered in the preview rendered at scale 1.2.
C21_BlockCoversPreviewRegion ==
    RedactDone =>
        LET doc   == redact.out.value
            image == ImageOf(doc)
        IN  \A k \in 1..Len(redact.args) :
               OnPage(image.blocks[k], image.scale, 1)
                 = OnPage(Clip(redact.args[k], PreviewWidth(doc[1]),
                               PreviewHeight(doc[1])),
                          PreviewScaleNum, PreviewScaleDen)

\* C22: after the redaction the composited raster is the sole content of the
\* redacted page: the content the page held before is not in the output.
C22_ImageIsSoleContent ==
    RedactDone =>
        LET content == redact.out.value[1].content
        IN  /\ Len(content) = 1
            /\ content[1].kind = "image"

(* ------------------------ C23: table extraction ----------------------- *)

\* the lines of the document, page after page
AllLines(file) == Flatten([n \in 1..Len(file) |-> LinesOf(file[n])])

\* position q of the line starts a separator: a tab, or two whitespace
\* characters in a row
SeparatorAt(line, q) ==
    \/ line[q] = "\t"
    \/ q < Len(line) /\ IsWhitespace(line[q]) /\ IsWhitespace(line[q + 1])

\* the line has text on both sides of a separator
Tabular(line) ==
    \E p, q, r \in 1..Len(line) :
        /\ p < q /\ q < r
        /\ ~IsWhitespace(line[p])
        /\ ~IsWhitespace(line[r])
        /\ SeparatorAt(line, q)

\* the characters of a line or of a cell that are not whitespace
Ink(s) == SelectSeq(s, LAMBDA c : ~IsWhitespace(c))

\* a cell of a row: not empty, trimmed, and without a separator inside
WellFormedCell(cell) ==
    /\ cell # <<>>
    /\ ~IsWhitespace(cell[1])
    /\ ~IsWhitespace(cell[Len(cell)])
    /\ \A q \in 1..Len(cell) : ~SeparatorAt(cell, q)

\* the lines of the document that are tabular, in page order then line order
TabularLines(file) == SelectSeq(AllLines(file), Tabular)

TableSettled == table.pc \in {"done", "failed"} /\ table.error # ExtractFailed

\* C23: the extraction returns one row per line that has at least 2
\* non-empty cells when split on runs of two or more whitespace characters or
\* on a tab, in page order then line order; every row has at least 2 cells,
\* all trimmed and non-empty, holding the text of its line; and it fails with
\* 'No tables detected.' exactly when no line of any page gives such a row.
C23_RowsAreTabularLines ==
    TableSettled =>
        LET lines == TabularLines(table.file)
            rows  == table.allRows
        IN  /\ Len(rows) = Len(lines)
            /\ \A k \in 1..Len(rows) :
                  /\ Len(rows[k]) >= 2
                  /\ \A c \in 1..Len(rows[k]) : WellFormedCell(rows[k][c])
                  /\ Ink(Flatten(rows[k])) = Ink(lines[k])
            /\ table.pc = "done" <=> Len(lines) > 0
            /\ table.pc = "done" => table.out = Returned(rows)
            /\ table.pc = "failed" => table.out = Thrown /\ table.error = NoTables

\* a document whose first page has no text and whose second page gives two
\* rows, the first of three cells
C23_Witness ==
    /\ table.pc = "done"
    /\ Len(table.file) = 2
    /\ Len(table.allRows) = 2
    /\ Len(table.allRows[1]) = 3
    /\ table.out = Returned(table.allRows)

(* --------------------------- C24: image names ------------------------- *)

\* the extension of the format a blob is encoded in
ExtensionOf(blob) ==
    IF blob.type = "image/jpeg" THEN <<"j", "p", "e", "g">>
    ELSE IF blob.type = "image/png" THEN <<"p", "n", "g">>
    ELSE <<"p", "d", "f">>

\* page-{k}.{ext} for the k-th exported image
ExportName(k, blob) ==
    <<"p", "a", "g", "e", "-">> \o Numeral(k) \o <<".">> \o ExtensionOf(blob)

\* C24: every exported page image is named page-{1-based index}.{ext}, ext
\* being the format the image is encoded in, in the individual download links
\* and in the ZIP of all images.
C24_ExportNames ==
    LET blobs == view.convertedImageBlobs
    IN  /\ view.resultsShown =>
              /\ Len(view.imageLinks) = Len(blobs)
              /\ \A k \in 1..Len(blobs) :
                    view.imageLinks[k] = ExportName(k, blobs[k])
        /\ \A k \in 1..Len(view.zipNames) :
              k <= Len(blobs) => view.zipNames[k] = ExportName(k, blobs[k])

(* ------------------------ C25: rendering surfaces --------------------- *)

\* the canvases that still hold their size
Live == {k \in 1..Len(raster.canvases) : raster.canvases[k].sized}

\* C25: in every rasterizing page loop at most one rendering surface is live
\* at any time, and no surface outlives the iteration that produced it: a
\* surface is live only while the iteration of its page is rendering, whether
\* that iteration ends normally or by a render failure.
C25_OneLiveSurface ==
    /\ Cardinality(Live) <= 1
    /\ \A k \in Live :
          /\ raster.pc = "render"
          /\ raster.canvases[k].page = raster.pageNum

(* --------------------- C30: the two ways of splitting ----------------- *)

\* the 1-based page numbers of 0-based page indices
AsPageNumbers(indices) == [k \in 1..Len(indices) |-> indices[k] + 1]

\* C30: for every page count, method and ranges argument, the structural
\* split and the rasterizing fallback plan the same outputs: the same number
\* of outputs, in the same order, with the same names and the same source
\* pages in each.
C30_SamePlan ==
    manual.pc = "done" =>
        /\ result = Returned(splitPdfs)
        /\ Len(manual.out.value) = Len(splitPdfs)
        /\ \A k \in 1..Len(splitPdfs) :
              /\ manual.out.value[k].name = splitPdfs[k].name
              /\ manual.out.value[k].pages = AsPageNumbers(splitPdfs[k].pages)

\* chunks of 3 of the 10-page document: both ways give 4 outputs, the last
\* one holding page 10 alone
C30_Witness ==
    /\ manual.pc = "done"
    /\ method = "pages"
    /\ pageCount = 10
    /\ Len(manual.out.value) = 4
    /\ Len(splitPdfs) = 4
    /\ manual.out.value[4].pages = <<10>>

(* --------------------- C26, C27, C28: the converters ------------------ *)

\* what converting the current selection under the active tab gives
ResultOfSelection(blobs) ==
    IF state.activeTab = "pdf-to-images"
    THEN /\ state.selectedPdf # NoFile
         /\ Len(blobs) = state.selectedPdf.pages
         /\ \A k \in 1..Len(blobs) : /\ blobs[k].of = state.selectedPdf.name
                                     /\ blobs[k].page = k
    ELSE /\ state.selectedImages # <<>>
         /\ Len(blobs) = 1
         /\ blobs[1].of = state.selectedImages

\* C26: whenever resultBlobs is not empty it holds the result of converting
\* the currently selected input under the currently active tab; a conversion
\* started before a selection or a tab change and completed after it does not
\* write its result.
C26_ResultsOfCurrentSelection ==
    state.resultBlobs # <<>> => ResultOfSelection(state.resultBlobs)

InFlight == {c \in 1..Len(convs) : convs[c].status = "running"}

\* C27: isLoading is true at every moment at which at least one conversion
\* is in flight, a second conversion started during the first included.
C27_LoadingWhileInFlight ==
    InFlight # {} => state.isLoading

\* this step is the settlement of call c: its service call resolves or throws
Settling(c) ==
    /\ c <= Len(convs)
    /\ convs[c].status = "running"
    /\ convs'[c].status # "running"

\* this step starts a call of the converter of that kind
Starting(kind) ==
    /\ Len(convs') = Len(convs) + 1
    /\ convs'[Len(convs')].kind = kind

ChangedEntries ==
    SelectSeq(setter.entries,
              LAMBDA e : Differs(e[1], setter.before[e[1]], e[2]))

\* the update object the entries were taken from
AsUpdates(entries) ==
    [key \in {entries[k][1] : k \in 1..Len(entries)} |->
        entries[CHOOSE k \in 1..Len(entries) : entries[k][1] = key][2]]

\* the state the call found with every key of the update set to its value
FullyUpdated ==
    [key \in DOMAIN setter.before |->
        IF \E k \in 1..Len(setter.entries) : setter.entries[k][1] = key
        THEN AsUpdates(setter.entries)[key]
        ELSE setter.before[key]]

\* C29: setState notifies only after its last write; the observer is called
\* once for each key whose value differed, in the order of the keys of the
\* update, each time with the fully updated state; a key with an identical
\* value is not notified, and an update that changes nothing calls nothing.
\* The calls are those the converters' handlers are given in one step.
C29_NotifiedAfterWriting ==
    /\ setter.pc = "write" => setter.calls = <<>>
    /\ setter.pc \in {"notify", "done"} =>
          /\ setter.state = FullyUpdated
          /\ \A k \in 1..Len(setter.calls) :
                /\ setter.calls[k].key = ChangedEntries[k][1]
                /\ setter.calls[k].seen = FullyUpdated
    /\ setter.pc = "done" =>
          /\ Len(setter.calls) = Len(ChangedEntries)
          /\ ChangedEntries = <<>> => setter.calls = <<>>
          /\ setter.calls = Notifications(setter.before,
                                          AsUpdates(setter.entries))

\* setActiveTab of the tab that is active, with a PDF selected and no error:
\* three of the five keys are notified
C29_Witness ==
    /\ setter.pc = "done"
    /\ setter.entries = SetActiveTabEntries("pdf-to-images")
    /\ setter.before.activeTab = "pdf-to-images"
    /\ setter.before.selectedPdf # NoFile
    /\ setter.before.error = NoError
    /\ Len(setter.calls) = 3
    /\ setter.calls[1].key = "selectedPdf"
    /\ setter.calls[3].key = "resultBlobs"

====
